---- MODULE Spec2Model ----
(***************************************************************************)
(* Model of the MCP carbon-data collector's TaskScheduler                  *)
(* (apps/mcp/src/scheduler/task-scheduler.ts) and of the adapter contract  *)
(* it drives.                                                              *)
(*                                                                         *)
(* JavaScript runs every synchronous segment of a handler atomically and   *)
(* may interleave other callbacks at each `await`.  One action of this     *)
(* module is one such segment: the code from one await (or from the call)  *)
(* up to the next await (or the return).                                   *)
(***************************************************************************)
EXTENDS Integers, Sequences, FiniteSets, TLC

(***************************************************************************)
(* Bounds of the model.                                                    *)
(***************************************************************************)
NumTasks == 2        \* how many of the four adapters' tasks are modelled
MaxStarts == 3       \* executeTask calls on known ids in one behaviour
MaxInFlight == 2     \* executions that may be in flight at the same time
MaxRegs == 2         \* cron registrations per task (start after stop adds one)
MaxRetryRuns == 4    \* executeTask calls in one behaviour of SpecRetry
MaxHistRuns == 1002  \* executions in the long sequential run of SpecHist
HistPrefill == 900   \* SpecHist takes the run up from this many executions on
MaxRows == 3         \* rows of the CEA table
MaxSourceRows == 2   \* rows of a payload of an adapter with two sources
MaxBatch == 3        \* records of a batch handed to the quality checks
MaxFetchRetries == 3 \* the retries option of a fetchWithRetry call

(***************************************************************************)
(* Program constants.                                                      *)
(***************************************************************************)
DefaultMaxRetries == 3      \* maxRetries: 3
RetryDelayMinutes == 5      \* task.retryCount * 5 * 60 * 1000
HistoryCap == 1000          \* executionHistory.length > 1000
HistoryKeep == 500          \* executionHistory.slice(-500)
DayMs == 86400000           \* 24 * 60 * 60 * 1000

NoDate == 0                 \* lastRun / nextRun undefined

(***************************************************************************)
(* The adapters, in the order initializeAdapters puts them in the map.     *)
(***************************************************************************)
Adapters ==
  << [name |-> "CEA CNEEEX",    marketCode |-> "CEA",  currency |-> "CNY"],
     [name |-> "CCER Official", marketCode |-> "CCER", currency |-> "CNY"],
     [name |-> "CARB CSV",      marketCode |-> "CCA",  currency |-> "USD"],
     [name |-> "CDR.fyi",       marketCode |-> "CDR",  currency |-> "USD"] >>

\* `${adapter.marketCode.toLowerCase()}-daily`
LowerDaily(marketCode) ==
  CASE marketCode = "CEA"  -> "cea-daily"
    [] marketCode = "CCER" -> "ccer-daily"
    [] marketCode = "CCA"  -> "cca-daily"
    [] marketCode = "CDR"  -> "cdr-daily"

\* Map iteration order = insertion order.
TaskOrder == [i \in 1..NumTasks |-> LowerDaily(Adapters[i].marketCode)]
TaskIds == {TaskOrder[i] : i \in 1..NumTasks}
UnknownId == "eu-daily"
TaskIndex(t) == CHOOSE i \in 1..NumTasks : TaskOrder[i] = t
AdapterOf(t) == Adapters[TaskIndex(t)]

getScheduleForMarket(marketCode) ==
  CASE marketCode = "CEA"  -> "30 9 * * 1-5"
    [] marketCode = "CCER" -> "45 9 * * 1-5"
    [] marketCode = "CCA"  -> "0 23 * * 1-5"
    [] marketCode = "CDR"  -> "0 1 * * *"
    [] OTHER -> "0 2 * * *"

initializeAdapters ==
  [t \in TaskIds |->
     [schedule |-> getScheduleForMarket(AdapterOf(t).marketCode),
      enabled |-> TRUE,
      retryCount |-> 0,
      maxRetries |-> DefaultMaxRetries,
      lastRun |-> NoDate,
      nextRun |-> NoDate]]

(***************************************************************************)
(* PriceRecord batches an adapter's collectData can hand to the scheduler. *)
(* The scheduler is written against the MCPAdapter interface, so a batch   *)
(* is any PriceRecord[]; the batches below are the ones the model draws.   *)
(***************************************************************************)
\* A JavaScript number (a price, a volume) is a number of hundredths: 3150
\* is 31.50.
Rec(m, c, d, p, v) ==
  [marketCode |-> m, instrumentCode |-> m, date |-> d, price |-> p,
   currency |-> c, volume |-> v, sourceUrl |-> "http://source",
   collectedBy |-> "MCP"]

NoVolume == -1   \* volume: null

Batches(t) ==
  LET a == AdapterOf(t) IN
  { << >>,
    << Rec(a.marketCode, a.currency, "2024-01-10", 3000, 100),
       Rec(a.marketCode, a.currency, "2024-01-11", 3100, NoVolume) >>,
    << Rec(a.marketCode, a.currency, "2024-01-10", 3000, 0),
       Rec("EU", "USD", "2024-01-11", 8000, NoVolume) >>,
    << Rec(a.marketCode, a.currency, "not-a-date", 3000, NoVolume) >> }

(***************************************************************************)
(* Generic helpers.                                                        *)
(***************************************************************************)
RECURSIVE Join(_, _)
\* Array.prototype.join
Join(strs, sep) ==
  IF Len(strs) = 0 THEN ""
  ELSE IF Len(strs) = 1 THEN strs[1]
  ELSE strs[1] \o sep \o Join(Tail(strs), sep)

\* mutant: slice(0, n), the oldest n
SliceFirst(s, n) == IF Len(s) <= n THEN s ELSE SubSeq(s, 1, n)

\* Array.prototype.slice(-n)
SliceLast(s, n) ==
  IF Len(s) <= n THEN s ELSE SubSeq(s, Len(s) - n + 1, Len(s))

\* Number.prototype.toString of n hundredths: 3000 -> "30", 3150 -> "31.5"
NumberToString(n) ==
  LET a == IF n < 0 THEN 0 - n ELSE n
      whole == a \div 100
      frac == a % 100
  IN (IF n < 0 THEN "-" ELSE "")
     \o ToString(whole)
     \o (IF frac = 0 THEN ""
         ELSE IF frac % 10 = 0 THEN "." \o ToString(frac \div 10)
         ELSE IF frac < 10 THEN ".0" \o ToString(frac)
         ELSE "." \o ToString(frac))

RemoveAt(s, i) == SubSeq(s, 1, i - 1) \o SubSeq(s, i + 1, Len(s))

(***************************************************************************)
(* Adapter.validateData: the hard errors.  The four adapters share the     *)
(* loop; isValid is errors.length === 0.                                   *)
(***************************************************************************)
NaN == -1
\* the date strings "2024-01-01" .. "2024-01-31"
DayString(d) == "2024-01-" \o (IF d < 10 THEN "0" ELSE "") \o ToString(d)

\* new Date(s).getTime(), in days, on the date strings of the model: the
\* days of January 2024 are dates, every other string is an Invalid Date
DateGetTime(s) ==
  CHOOSE time \in
    { IF \E d \in 1..31 : DayString(d) = date
        THEN 19722 + (CHOOSE d \in 1..31 : DayString(d) = date)
        ELSE NaN
      : date \in {s} } : TRUE

RecordErrors(adapter, record) ==
  (IF record.marketCode # adapter.marketCode
     THEN << "Invalid market code: " \o record.marketCode >> ELSE << >>)
  \o (IF record.currency # adapter.currency
     THEN << "Invalid currency: " \o record.currency >> ELSE << >>)
  \o (IF DateGetTime(record.date) = NaN
     THEN << "Invalid date: " \o record.date >> ELSE << >>)

RECURSIVE BatchErrors(_, _)
\* for (const record of records) { ... errors.push(...) ... }
BatchErrors(adapter, records) ==
  IF Len(records) = 0 THEN << >>
  ELSE RecordErrors(adapter, Head(records)) \o BatchErrors(adapter, Tail(records))

validateData(adapter, records) ==
  LET errors == BatchErrors(adapter, records)
  IN [isValid |-> Len(errors) = 0, errors |-> errors,
      recordCount |-> Len(records)]

(***************************************************************************)
(* TaskScheduler.convertToCSVFormat: the header line and one line per      *)
(* record, every field double-quoted, fields joined by commas.  The lines  *)
(* are kept as a sequence (the code joins them with \n).                   *)
(***************************************************************************)
CSVHeaders ==
  << "market_code", "instrument_code", "date", "price", "price_type",
     "currency", "unit", "volume", "source_url", "notes" >>

CSVRow(record) ==
  << record.marketCode, record.instrumentCode, record.date,
     NumberToString(record.price), "close", record.currency, "tCO2e",
     IF record.volume = NoVolume THEN "" ELSE NumberToString(record.volume),
     record.sourceUrl, "MCP采集: " \o record.collectedBy >>

CSVLine(row) ==
  Join([i \in 1..Len(row) |-> "\"" \o row[i] \o "\""], ",")

convertToCSVFormat(records) ==
  IF Len(records) = 0 THEN << >>
  ELSE [i \in 1..(Len(records) + 1) |->
          IF i = 1 THEN CSVLine(CSVHeaders) ELSE CSVLine(CSVRow(records[i - 1]))]

(***************************************************************************)
(* The adapters' collectData.  What a source serves is the input: the rows *)
(* of a table, the records of a CSV file, the items of a JSON answer, each *)
(* field a string as scraped.  The string functions are given on the       *)
(* strings the payloads of the model use; in them Y, M, D, W and T stand   *)
(* for the characters 年, 月, 日, 万 and 吨.                               *)
(***************************************************************************)
TargetDate == "2024-01-10"

Abs(x) == IF x < 0 THEN 0 - x ELSE x

\* parseFloat, on the numeric strings of the model
ParseFloat(s) ==
  CASE s = "30" -> 3000
    [] s = "31.50" -> 3150
    [] s = "32" -> 3200
    [] s = "33" -> 3300
    [] s = "34" -> 3400
    [] s = "35" -> 3500
    [] s = "36" -> 3600
    [] s = "0" -> 0
    [] s = "-5" -> -500
    [] s = "2" -> 200
    [] s = "5" -> 500
    [] s = "1000" -> 100000
    [] OTHER -> NaN

\* |record - target| <= days, both dates valid
WithinDays(recordDate, target, days) ==
  Abs(DateGetTime(target) - DateGetTime(recordDate)) <= days

\* new Date(s).toISOString() throws RangeError: Invalid time value
ToISOStringThrows(s) == DateGetTime(s) = NaN

SourceRec(adapter, instrument, d, p, v, url) ==
  [marketCode |-> adapter.marketCode, instrumentCode |-> instrument,
   date |-> d, price |-> p, currency |-> adapter.currency, volume |-> v,
   sourceUrl |-> url, collectedBy |-> "MCP:" \o adapter.name]

Evidence(source, ok) == [source |-> source, success |-> ok]

(***************************************************************************)
(* Strings, character by character.                                        *)
(***************************************************************************)
CharAt(s, i) == SubSeq(s, i, i)

\* String.prototype.includes
Includes(s, sub) ==
  \E i \in 1..(Len(s) - Len(sub) + 1) : SubSeq(s, i, i + Len(sub) - 1) = sub

UpperLetters == "ABCDEFGHIJKLMNOPQRSTUVWXYZ"
LowerLetters == "abcdefghijklmnopqrstuvwxyz"

LowerChar(c) ==
  IF \E k \in 1..26 : CharAt(UpperLetters, k) = c
    THEN CharAt(LowerLetters, CHOOSE k \in 1..26 : CharAt(UpperLetters, k) = c)
    ELSE c

RECURSIVE ToLowerCase(_)
ToLowerCase(s) ==
  IF Len(s) = 0 THEN ""
  ELSE LowerChar(CharAt(s, 1)) \o ToLowerCase(Tail(s))

Digits == "0123456789"

IsDigit(c) == \E k \in 1..10 : CharAt(Digits, k) = c

\* the digits of s read as a number (s is all digits)
RECURSIVE DigitsValue(_)
DigitsValue(s) ==
  IF Len(s) = 0 THEN 0
  ELSE 10 * DigitsValue(SubSeq(s, 1, Len(s) - 1))
       + (CHOOSE k \in 1..10 : CharAt(Digits, k) = CharAt(s, Len(s))) - 1

AllDigits(s) == \A i \in 1..Len(s) : IsDigit(CharAt(s, i))

\* the place of a character in the collation order: punctuation, then
\* digits, then everything else
CharRank(c) ==
  IF c = "-" \/ c = "/" THEN 0
  ELSE IF IsDigit(c) THEN CHOOSE k \in 1..10 : CharAt(Digits, k) = c
  ELSE 11

RECURSIVE LocaleCompare(_, _)
\* a.localeCompare(b) on the strings of the model: -1, 0 or 1
LocaleCompare(a, b) ==
  IF Len(a) = 0 THEN (IF Len(b) = 0 THEN 0 ELSE -1)
  ELSE IF Len(b) = 0 THEN 1
  ELSE IF CharRank(CharAt(a, 1)) < CharRank(CharAt(b, 1)) THEN -1
  ELSE IF CharRank(CharAt(a, 1)) > CharRank(CharAt(b, 1)) THEN 1
  ELSE LocaleCompare(Tail(a), Tail(b))

\* /^\d{4}-\d{2}-\d{2}$/.test(s)
IsoDateShaped(s) ==
  /\ Len(s) = 10
  /\ AllDigits(SubSeq(s, 1, 4)) /\ CharAt(s, 5) = "-"
  /\ AllDigits(SubSeq(s, 6, 7)) /\ CharAt(s, 8) = "-"
  /\ AllDigits(SubSeq(s, 9, 10))


(***************************************************************************)
(* Dates as strings.  The characters of the Chinese date form are written  *)
(* Y, M and D here: "2024Y01M12D" stands for the form with the year, month *)
(* and day characters.                                                     *)
(***************************************************************************)
Pad2(n) == IF n < 10 THEN "0" \o ToString(n) ELSE ToString(n)

IsSep(c) == c = "/" \/ c = "-"

SepAt(s) == {i \in 1..Len(s) : IsSep(CharAt(s, i))}

\* the three fields around the two separators of s, << >> without them
Fields(s) ==
  IF Cardinality(SepAt(s)) # 2 THEN << >>
  ELSE LET i == CHOOSE k \in SepAt(s) : \A l \in SepAt(s) : k <= l
           j == CHOOSE k \in SepAt(s) : \A l \in SepAt(s) : k >= l
       IN << SubSeq(s, 1, i - 1), SubSeq(s, i + 1, j - 1),
             SubSeq(s, j + 1, Len(s)) >>

\* the format of formats[] that s matches: 1 (YYYY-MM-DD), 2 (MM/DD/YYYY),
\* 3 (MM/DD/YY), or 0
FormatOf(s) ==
  LET f == Fields(s) IN
  IF f = << >> \/ \E k \in 1..3 : ~AllDigits(f[k]) THEN 0
  ELSE IF Len(f[1]) = 4 /\ Len(f[2]) \in 1..2 /\ Len(f[3]) \in 1..2 THEN 1
  ELSE IF Len(f[1]) \in 1..2 /\ Len(f[2]) \in 1..2 /\ Len(f[3]) = 4 THEN 2
  ELSE IF Len(f[1]) \in 1..2 /\ Len(f[2]) \in 1..2 /\ Len(f[3]) = 2 THEN 3
  ELSE 0

\* year, month and day as the branch of the matched format reads them
YearMonthDay(s) ==
  LET f == Fields(s)
      n == [k \in 1..3 |-> DigitsValue(f[k])]
  IN CASE FormatOf(s) = 1 -> << n[1], n[2], n[3] >>
       [] FormatOf(s) = 2 -> << n[3], n[1], n[2] >>
       [] FormatOf(s) = 3 ->
            << IF n[3] < 50 THEN 2000 + n[3] ELSE 1900 + n[3], n[1], n[2] >>

IsoOf(ymd) == ToString(ymd[1]) \o "-" \o Pad2(ymd[2]) \o "-" \o Pad2(ymd[3])

RECURSIVE KeepDateChars(_)
\* dateString.trim().replace(/[^\d\/\-]/g, '')
KeepDateChars(s) ==
  IF Len(s) = 0 THEN ""
  ELSE (IF IsDigit(CharAt(s, 1)) \/ IsSep(CharAt(s, 1)) THEN CharAt(s, 1) ELSE "")
       \o KeepDateChars(Tail(s))

MinYear == 2000

\* CarbCSVAdapter.normalizeDate; null is ""
\* (clean and the fields read from it are bound as elements of singleton
\* sets, so that each is computed once for the many places that read it)
normalizeDate(dateString) ==
  CHOOSE result \in
    { IF FormatOf(clean) = 0 THEN ""
      ELSE CHOOSE iso \in
             { IF ymd[2] >= 1 /\ ymd[2] <= 12 /\ ymd[3] >= 1 /\ ymd[3] <= 31
                  /\ ymd[1] >= MinYear
                 THEN IsoOf(ymd) ELSE ""
               : ymd \in {YearMonthDay(clean)} } : TRUE
      : clean \in {KeepDateChars(s) : s \in {dateString}} } : TRUE

\* new Date(s) for a string that is not in the ISO shape: the local calendar
\* day << year, month, day >> the engine reads from the numeric forms, << >>
\* for an Invalid Date
NewDateLocal(s) ==
  IF FormatOf(s) = 0 THEN << >>
  ELSE LET ymd == YearMonthDay(s) IN
       IF ymd[2] \in 1..12 /\ ymd[3] \in 1..31 THEN ymd ELSE << >>

DaysIn(month) == IF month \in {4, 6, 9, 11} THEN 30 ELSE IF month = 2 THEN 28 ELSE 31

PrevDay(ymd) ==
  IF ymd[3] > 1 THEN << ymd[1], ymd[2], ymd[3] - 1 >>
  ELSE IF ymd[2] > 1 THEN << ymd[1], ymd[2] - 1, DaysIn(ymd[2] - 1) >>
  ELSE << ymd[1] - 1, 12, 31 >>

\* date.toISOString().split('T')[0] of a local midnight: the day before in a
\* time zone ahead of UTC
ToISODate(ymd, utcOffset) == IsoOf(IF utcOffset > 0 THEN PrevDay(ymd) ELSE ymd)

(***************************************************************************)
(* CEAAdapter.                                                             *)
(***************************************************************************)
CEA == Adapters[1]
CEAUrl == "http://www.cneeex.com/c/2020-04-08/452044.shtml"
CEAWindowDays == 3
NoPrice == 0     \* parsePrice: null

RECURSIVE CEANormalized(_)
\* dateStr.replace(/Y/g, '-').replace(/M/g, '-').replace(/D/g, '')
CEANormalized(s) ==
  IF Len(s) = 0 THEN ""
  ELSE (CASE CharAt(s, 1) \in {"Y", "M"} -> "-"
          [] CharAt(s, 1) = "D" -> ""
          [] OTHER -> CharAt(s, 1))
       \o CEANormalized(Tail(s))

\* CEAAdapter.parseDateString where the local time is utcOffset hours ahead
\* of UTC; null is ""
parseDateString(dateStr, utcOffset) ==
  CHOOSE result \in
    { IF IsoDateShaped(normalized) THEN normalized
      ELSE CHOOSE iso \in
             { IF date = << >> THEN "" ELSE ToISODate(date, utcOffset)
               : date \in {NewDateLocal(s) : s \in {dateStr}} } : TRUE
      : normalized \in {CEANormalized(s) : s \in {dateStr}} } : TRUE

CEAparseDateString(dateStr) == parseDateString(dateStr, 0)

\* priceStr.replace(/[￥¥,\s]/g, '')
CEACleanPrice(s) ==
  CASE s = "¥31.50" -> "31.50"
    [] s = "1,000" -> "1000"
    [] OTHER -> s

CEAparsePrice(priceStr) ==
  LET price == ParseFloat(CEACleanPrice(priceStr)) IN
  IF price = NaN \/ price <= 0 THEN NoPrice ELSE price

\* volumeStr.includes('万')
HasWan(s) == s = "2W"

\* volumeStr.replace('万', '') and then .replace(/[,\s吨]/g, '')
CEACleanVolume(s) ==
  CASE s = "2W" -> "2"
    [] s = "1,000T" -> "1000"
    [] OTHER -> s

CEAparseVolume(volumeStr) ==
  IF volumeStr = "" \/ volumeStr = "-" THEN NoVolume
  ELSE LET multiplier == IF HasWan(volumeStr) THEN 10000 ELSE 1
           volume == ParseFloat(CEACleanVolume(volumeStr))
       IN IF volume = NaN THEN NoVolume ELSE volume * multiplier

\* isTargetDate on a recordDate that is a date
CEAisTargetDate(recordDate, target) ==
  WithinDays(recordDate, target, CEAWindowDays)

RECURSIVE CEARows(_, _, _)
\* the loop of lines 66-95: the records pushed, and the message of the
\* error that ended the loop ("": it ran to its end)
CEARows(rows, target, data) ==
  IF Len(rows) = 0 THEN [data |-> data, error |-> ""]
  ELSE LET row == Head(rows)
           dateStr == CEAparseDateString(row.date)
           price == CEAparsePrice(row.price)
           volume == CEAparseVolume(row.volume)
       IN IF dateStr = "" THEN CEARows(Tail(rows), target, data)
          ELSE IF price = NoPrice \/ price <= 0
            THEN CEARows(Tail(rows), target, data)
          ELSE IF ToISOStringThrows(dateStr)
            THEN [data |-> data, error |-> "Invalid time value"]
          ELSE IF CEAisTargetDate(dateStr, target)
            THEN CEARows(Tail(rows), target,
                         Append(data, SourceRec(CEA, "CEA", dateStr, price,
                                                volume, CEAUrl)))
          ELSE CEARows(Tail(rows), target, data)

\* collectData once the browser is up; page: [loaded, rows]
CEAcollectData(page, target) ==
  IF ~page.loaded
    THEN [raised |-> FALSE, data |-> << >>,
          evidence |-> << Evidence(CEA.name, FALSE) >>]
    ELSE LET r == CEARows(page.rows, target, << >>) IN
         [raised |-> FALSE, data |-> r.data,
          evidence |-> << Evidence(CEA.name, TRUE) >>
                       \o (IF r.error = "" THEN << >>
                           ELSE << Evidence(CEA.name, FALSE) >>)]

(***************************************************************************)
(* CCEROfficialAdapter.  A source payload is [ok, rows]: ok is false when  *)
(* loading or scraping the page throws; a row is a date cell and the price *)
(* cell next to it.                                                        *)
(***************************************************************************)
CCER == Adapters[2]

CCERSources ==
  << [name |-> "Guangzhou", url |-> "https://www.cnemission.com/article/hqxx/"],
     [name |-> "Beijing", url |-> "https://www.bjets.com.cn/article/jyxx/"] >>

\* the date the page script builds from a date cell: the y-m-d match of
\* lines 110-111, month and day padded to two digits ("": no match)
CCERDateOf(text) ==
  CASE DateGetTime(text) # NaN -> text
    [] text = "2024/1/12" -> "2024-01-12"
    [] text = "2024-13-45" -> "2024-13-45"
    [] OTHER -> ""

\* the first number in a price cell, /(\d+(?:[,\.]\d+)?)/, its first comma
\* removed ("": no match)
CCERPriceOf(text) ==
  CASE text = "¥31.50" -> "31.50"
    [] text = "-5" -> "5"
    [] text = "1,000" -> "1000"
    [] text = "abc" -> ""
    [] OTHER -> text

\* the items page.evaluate returns for the rows
CCERItems(rows) ==
  LET Matched(row) == CCERDateOf(row.date) # "" /\ CCERPriceOf(row.price) # ""
      Priced(row) == LET price == ParseFloat(CCERPriceOf(row.price))
                     IN price # NaN /\ price > 0
      kept == SelectSeq(rows, LAMBDA row : Matched(row) /\ Priced(row))
  IN [i \in 1..Len(kept) |->
        [date |-> CCERDateOf(kept[i].date),
         price |-> ParseFloat(CCERPriceOf(kept[i].price))]]

CCERisValidDate(dateString) == DateGetTime(dateString) # NaN

\* collectFromSource: threw, or the records and the evidence returned
CCERcollectFromSource(source, payload, target) ==
  IF ~payload.ok
    THEN [threw |-> TRUE, data |-> << >>, evidence |-> << >>]
    ELSE LET items == SelectSeq(CCERItems(payload.rows),
                                LAMBDA item : CCERisValidDate(item.date))
         IN [threw |-> FALSE,
             data |-> [i \in 1..Len(items) |->
                         SourceRec(CCER, "CCER", items[i].date, items[i].price,
                                   NoVolume, source.url)],
             evidence |-> << Evidence(source.name, TRUE) >>]

RECURSIVE CCERLoopAborting(_, _, _, _, _)
\* mutant: the try/catch around the loop instead of inside it
CCERLoopAborting(i, payloads, target, allData, evidence) ==
  IF i > Len(CCERSources)
    THEN [raised |-> FALSE, data |-> allData, evidence |-> evidence]
    ELSE LET r == CCERcollectFromSource(CCERSources[i], payloads[i], target) IN
         IF r.threw
           THEN [raised |-> FALSE, data |-> allData,
                 evidence |-> Append(evidence,
                                     Evidence(CCERSources[i].name, FALSE))]
           ELSE CCERLoopAborting(i + 1, payloads, target, allData \o r.data,
                                 evidence \o r.evidence)

RECURSIVE CCERLoop(_, _, _, _, _)
\* for (const source of this.sources) { try ... catch ... }
CCERLoop(i, payloads, target, allData, evidence) ==
  IF i > Len(CCERSources)
    THEN [raised |-> FALSE, data |-> allData, evidence |-> evidence]
    ELSE LET r == CCERcollectFromSource(CCERSources[i], payloads[i], target) IN
         IF r.threw
           THEN CCERLoop(i + 1, payloads, target, allData,
                         Append(evidence, Evidence(CCERSources[i].name, FALSE)))
           ELSE CCERLoop(i + 1, payloads, target, allData \o r.data,
                         evidence \o r.evidence)

\* collectData once the browser is up
CCERcollectData(payloads, target) ==
  CCERLoop(1, payloads, target, << >>, << >>)

(***************************************************************************)
(* CarbCSVAdapter.  A source payload is [ok, rows]: ok is false when the   *)
(* download or the CSV parse throws; a row has the date, price and volume  *)
(* columns.                                                                *)
(***************************************************************************)
CCA == Adapters[3]
CCAWindowDays == 3

CCASources ==
  << [name |-> "CARB Auction Results",
      url |-> "https://ww2.arb.ca.gov/sites/default/files/2024/auction_results.csv"],
     [name |-> "CARB Secondary Market",
      url |-> "https://ww2.arb.ca.gov/sites/default/files/2024/secondary_market_data.csv"] >>

\* normalizeDate: the three formats, month 1-12, day 1-31, year >= 2000
\* ("": null)
CCAnormalizeDate(dateString) == normalizeDate(dateString)

\* value.replace(/[$,\s]/g, '').trim() and parseFloat; null is NaN here
CCAparseNumericValue(value) ==
  ParseFloat(CASE value = "$30" -> "30"
               [] value = "1,000" -> "1000"
               [] OTHER -> value)

\* parseCSVRecord: the record, or << >> for null
CCAparseCSVRecord(row, source) ==
  LET date == IF row.date = "" THEN "" ELSE CCAnormalizeDate(row.date)
      p == IF row.price = "" THEN NaN ELSE CCAparseNumericValue(row.price)
      price == IF p # NaN /\ p # 0 /\ p > 0 THEN p ELSE NoPrice
      v == IF row.volume = "" THEN NaN ELSE CCAparseNumericValue(row.volume)
      volume == IF v # NaN /\ v # 0 /\ v >= 0 THEN v ELSE NoVolume
  IN IF date = "" \/ price = NoPrice THEN << >>
     ELSE << SourceRec(CCA, "CCA", date, price, volume, source.url) >>

RECURSIVE CCARows(_, _, _, _)
\* the loop of lines 102-107
CCARows(rows, source, target, data) ==
  IF Len(rows) = 0 THEN [data |-> data, error |-> ""]
  ELSE LET rec == CCAparseCSVRecord(Head(rows), source) IN
       IF rec = << >> THEN CCARows(Tail(rows), source, target, data)
       ELSE IF ToISOStringThrows(rec[1].date)
         THEN [data |-> data, error |-> "Invalid time value"]
       ELSE IF WithinDays(rec[1].date, target, CCAWindowDays)
         THEN CCARows(Tail(rows), source, target, data \o rec)
       ELSE CCARows(Tail(rows), source, target, data)

CCAcollectFromCSVSource(source, payload, target) ==
  IF ~payload.ok
    THEN [data |-> << >>, evidence |-> << Evidence(source.name, FALSE) >>]
    ELSE LET r == CCARows(payload.rows, source, target, << >>) IN
         [data |-> r.data,
          evidence |-> << Evidence(source.name, TRUE) >>
                       \o (IF r.error = "" THEN << >>
                           ELSE << Evidence(source.name, FALSE) >>)]

RECURSIVE CCALoop(_, _, _, _, _)
CCALoop(i, payloads, target, allData, evidence) ==
  IF i > Len(CCASources)
    THEN [raised |-> FALSE, data |-> allData, evidence |-> evidence]
    ELSE LET r == CCAcollectFromCSVSource(CCASources[i], payloads[i], target)
         IN CCALoop(i + 1, payloads, target, allData \o r.data,
                    evidence \o r.evidence)

CCAcollectData(payloads, target) == CCALoop(1, payloads, target, << >>, << >>)

(***************************************************************************)
(* CDRfyiAdapter.  The two sources are the prices API and the transactions *)
(* API.  A payload is [ok, rows]: ok is false when the request or its JSON *)
(* body fails.  A price item has string fields ("": absent); a transaction *)
(* has a date string and a numeric price and volume.                       *)
(***************************************************************************)
CDR == Adapters[4]
CDRWindowDays == 5
CDRPricesUrl == "https://cdr.fyi/api/v1/prices"
CDRTransactionsUrl == "https://cdr.fyi/api/v1/transactions"

\* normalizeDate: "" is null
CDRnormalizeDate(dateString) ==
  IF DateGetTime(dateString) = NaN THEN "" ELSE dateString

\* a string operand of `price <= 0` is converted by Number()
CDRNotPositive(price) ==
  LET n == ParseFloat(price) IN n # NaN /\ n <= 0

\* parseAPIRecord: the record, or << >> for null
CDRparseAPIRecord(item) ==
  IF item.date = "" \/ item.price = "" \/ CDRNotPositive(item.price)
    THEN << >>
    ELSE << SourceRec(CDR, "CDR",
                      IF CDRnormalizeDate(item.date) # ""
                        THEN CDRnormalizeDate(item.date) ELSE item.date,
                      ParseFloat(item.price),
                      IF item.volume = "" THEN NoVolume
                      ELSE ParseFloat(item.volume),
                      CDRPricesUrl) >>

RECURSIVE CDRPriceRecords(_)
CDRPriceRecords(items) ==
  IF Len(items) = 0 THEN << >>
  ELSE CDRparseAPIRecord(Head(items)) \o CDRPriceRecords(Tail(items))

CDRfetchPricesAPI(payload, target) ==
  IF ~payload.ok
    THEN [data |-> << >>,
          evidence |-> << Evidence("CDR.fyi Prices API", FALSE) >>]
    ELSE [data |-> CDRPriceRecords(payload.rows),
          evidence |-> << Evidence("CDR.fyi Prices API", TRUE) >>]

RECURSIVE CDRDates(_, _)
\* the keys of aggregateTransactionsByDate, in insertion order
CDRDates(transactions, seen) ==
  IF Len(transactions) = 0 THEN seen
  ELSE LET d == CDRnormalizeDate(Head(transactions).date) IN
       CDRDates(Tail(transactions),
                IF d = "" \/ \E i \in 1..Len(seen) : seen[i] = d
                  THEN seen ELSE Append(seen, d))

\* parseFloat(tx.volume || tx.quantity || 1)
CDRWeightOf(tx) == IF tx.volume = 0 THEN 100 ELSE tx.volume

\* what a transaction adds to totalValue, to totalVolume (of the average)
\* and to the volume of the record
CDRTerm(tx, what) ==
  LET counts == tx.price > 0 /\ CDRWeightOf(tx) > 0 IN
  CASE what = "value" -> IF counts THEN tx.price * CDRWeightOf(tx) ELSE 0
    [] what = "weight" -> IF counts THEN CDRWeightOf(tx) ELSE 0
    [] what = "volume" -> tx.volume

RECURSIVE CDRSum(_, _)
CDRSum(transactions, what) ==
  IF Len(transactions) = 0 THEN 0
  ELSE CDRTerm(Head(transactions), what) + CDRSum(Tail(transactions), what)

\* calculateWeightedAveragePrice; the payloads keep the quotient whole
CDRcalculateWeightedAveragePrice(transactions) ==
  LET totalValue == CDRSum(transactions, "value")
      totalVolume == CDRSum(transactions, "weight")
  IN IF totalVolume > 0 THEN totalValue \div totalVolume ELSE 0

CDRisTargetDate(recordDate, target) ==
  WithinDays(recordDate, target, CDRWindowDays)

RECURSIVE CDRDaily(_, _, _, _)
\* the loop of lines 139-163 over the dates
CDRDaily(dates, transactions, target, data) ==
  IF Len(dates) = 0 THEN data
  ELSE LET date == Head(dates)
           txs == SelectSeq(transactions,
                            LAMBDA tx : CDRnormalizeDate(tx.date) = date)
           avgPrice == CDRcalculateWeightedAveragePrice(txs)
           totalVolume == CDRSum(txs, "volume")
       IN IF CDRisTargetDate(date, target) /\ avgPrice > 0
            THEN CDRDaily(Tail(dates), transactions, target,
                          Append(data, SourceRec(CDR, "CDR", date, avgPrice,
                                                 totalVolume,
                                                 CDRTransactionsUrl)))
            ELSE CDRDaily(Tail(dates), transactions, target, data)

CDRfetchTransactionsAPI(payload, target) ==
  IF ~payload.ok
    THEN [data |-> << >>,
          evidence |-> << Evidence("CDR.fyi Transactions API", FALSE) >>]
    ELSE [data |-> CDRDaily(CDRDates(payload.rows, << >>), payload.rows,
                            target, << >>),
          evidence |-> << Evidence("CDR.fyi Transactions API", TRUE) >>]

\* payloads[1]: the prices API, payloads[2]: the transactions API
CDRcollectData(payloads, target) ==
  LET pricesData == CDRfetchPricesAPI(payloads[1], target)
      transactionsData == CDRfetchTransactionsAPI(payloads[2], target)
  IN [raised |-> FALSE,
      data |-> pricesData.data \o transactionsData.data,
      evidence |-> pricesData.evidence \o transactionsData.evidence]

(***************************************************************************)
(* QualityChecker.  A score is a whole number.  The batches of the model   *)
(* carry dates that are dates; a missing field is an empty marketCode or a *)
(* price of 0.                                                             *)
(***************************************************************************)
MissingFieldPenalty == 10
BadPricePenalty == 15
MixedMarketPenalty == 20
DateOrderPenalty == 5
MaxScore == 100

Min(a, b) == IF a < b THEN a ELSE b
Max(a, b) == IF a > b THEN a ELSE b

\* !record[field]
Missing(record, field) ==
  CASE field = "date" -> record.date = ""
    [] field = "price" -> record.price = 0 \/ record.price = NaN
    [] field = "marketCode" -> record.marketCode = ""
    [] field = "instrumentCode" -> record.instrumentCode = ""

RECURSIVE RecordDeductions(_)
\* the deductions pushed by the loop over the records, summed
RecordDeductions(records) ==
  IF Len(records) = 0 THEN 0
  ELSE LET record == Head(records) IN
       (IF Missing(record, "date") \/ Missing(record, "price")
           \/ Missing(record, "marketCode")
          THEN MissingFieldPenalty ELSE 0)
       + (IF record.price # NaN /\ record.price <= 0
            THEN BadPricePenalty ELSE 0)
       + RecordDeductions(Tail(records))

\* JSON.stringify(dates) === JSON.stringify(sortedDates)
DatesSorted(records) ==
  \A i, j \in 1..Len(records) :
    i < j => DateGetTime(records[i].date) <= DateGetTime(records[j].date)

Deductions(records) ==
  RecordDeductions(records)
  + (IF Cardinality({records[i].marketCode : i \in 1..Len(records)}) > 1
       THEN MixedMarketPenalty ELSE 0)
  + (IF DatesSorted(records) THEN 0 ELSE DateOrderPenalty)

\* mutant: the deductions subtracted without Math.min and Math.max
calculateScoreUnclamped(records) ==
  IF Len(records) = 0 THEN 0 ELSE MaxScore - Deductions(records)

calculateScore(records) ==
  IF Len(records) = 0 THEN 0
  ELSE LET totalDeduction == Min(Deductions(records), 100)
       IN Max(0, MaxScore - totalDeduction)

RangeWarning(price, range) ==
  "Price " \o NumberToString(price) \o " outside expected range ("
  \o NumberToString(range.min) \o "-" \o NumberToString(range.max) \o ")"

\* mutant: the range check with <= and >=
OutOfRangeInclusive(price, range) == price <= range.min \/ price >= range.max

\* record.price < min || record.price > max
OutOfRange(price, range) == price < range.min \/ price > range.max

RECURSIVE MissingWarnings(_, _)
MissingWarnings(record, fields) ==
  IF Len(fields) = 0 THEN << >>
  ELSE (IF Missing(record, Head(fields))
          THEN << "Missing required field: " \o Head(fields) >> ELSE << >>)
       \o MissingWarnings(record, Tail(fields))

RECURSIVE RecordWarnings(_, _)
\* the first loop of checkQuality
RecordWarnings(records, options) ==
  IF Len(records) = 0 THEN << >>
  ELSE LET record == Head(records) IN
       (IF OutOfRange(record.price, options.expectedPriceRange)
          THEN << RangeWarning(record.price, options.expectedPriceRange) >>
          ELSE << >>)
       \o MissingWarnings(record, options.requiredFields)
       \o RecordWarnings(Tail(records), options)

RECURSIVE SortByDate(_)
\* [...records].sort by date: a stable insertion into the sorted tail
SortByDate(records) ==
  IF Len(records) = 0 THEN << >>
  ELSE LET n == Len(records)
           front == SortByDate(SubSeq(records, 1, n - 1))
           last == records[n]
           before == SelectSeq(front, LAMBDA r :
                       DateGetTime(r.date) <= DateGetTime(last.date))
           after == SelectSeq(front, LAMBDA r :
                       DateGetTime(r.date) > DateGetTime(last.date))
       IN before \o << last >> \o after

\* changePercent.toFixed(1)
PercentText(prevPrice, currPrice) ==
  IF prevPrice = 0 THEN "Infinity"
  ELSE LET tenths == (2000 * Abs(currPrice - prevPrice) + Abs(prevPrice))
                       \div (2 * Abs(prevPrice))
       IN ToString(tenths \div 10) \o "." \o ToString(tenths % 10)

\* changePercent > maxPriceChangePercent
ChangeExceeds(prevPrice, currPrice, maxPercent) ==
  IF prevPrice = 0 THEN currPrice # 0
  ELSE 100 * Abs(currPrice - prevPrice) > maxPercent * Abs(prevPrice)

ChangeWarning(prev, curr) ==
  "Large price change " \o PercentText(prev.price, curr.price) \o "% between "
  \o prev.date \o " and " \o curr.date

RECURSIVE ChangeWarnings(_, _, _)
\* the loop over the sorted records, from index i on
ChangeWarnings(sorted, i, maxPercent) ==
  IF i > Len(sorted) THEN << >>
  ELSE (IF ChangeExceeds(sorted[i - 1].price, sorted[i].price, maxPercent)
          THEN << ChangeWarning(sorted[i - 1], sorted[i]) >> ELSE << >>)
       \o ChangeWarnings(sorted, i + 1, maxPercent)

\* checkQuality: the warnings and passed (the score it also returns is not
\* read by validateData)
checkQuality(records, options) ==
  LET warnings == RecordWarnings(records, options)
                  \o ChangeWarnings(SortByDate(records), 2,
                                    options.maxPriceChangePercent)
      missing == \E i \in 1..Len(records) :
                   \E k \in 1..Len(options.requiredFields) :
                     Missing(records[i], options.requiredFields[k])
  IN [warnings |-> warnings, passed |-> ~missing /\ Len(warnings) < 5]

(***************************************************************************)
(* CarbCSVAdapter.validateData.                                            *)
(***************************************************************************)
CCAOptions ==
  [expectedPriceRange |-> [min |-> 500, max |-> 10000],
   maxPriceChangePercent |-> 20,
   requiredFields |-> << "date", "price", "marketCode", "instrumentCode" >>]

RECURSIVE CCARangeWarnings(_)
CCARangeWarnings(records) ==
  IF Len(records) = 0 THEN << >>
  ELSE (IF Head(records).price < 500 \/ Head(records).price > 10000
          THEN << "Price $" \o NumberToString(Head(records).price)
                  \o " outside typical CARB range ($5-100)" >>
          ELSE << >>)
       \o CCARangeWarnings(Tail(records))

CCAvalidateData(records) ==
  LET errors == BatchErrors(CCA, records)
      qualityCheck == checkQuality(records, CCAOptions)
  IN [isValid |-> Len(errors) = 0, errors |-> errors,
      warnings |-> CCARangeWarnings(records) \o qualityCheck.warnings,
      qualityScore |-> calculateScore(records),
      recordCount |-> Len(records)]

(***************************************************************************)
(* The quality utilities on parsed rows: validatePriceData,                *)
(* checkDuplicates, assessBatchQuality.  An absent volume is NoVolume;     *)
(* today is the local midnight the call reads from the clock.              *)
(***************************************************************************)
ParsedRow(m, i, d, p, c, v, url) ==
  [market_code |-> m, instrument_code |-> i, date |-> d, price |-> p,
   currency |-> c, volume |-> v, source_url |-> url]

KnownMarkets == {"EU", "UK", "CCA", "CEA", "CCER", "CDR"}

\* marketCurrencyMap[market_code]; undefined is ""
ExpectedCurrency(market_code) ==
  CASE market_code = "EU" -> "EUR"
    [] market_code = "UK" -> "GBP"
    [] market_code \in {"CCA", "CDR"} -> "USD"
    [] market_code \in {"CEA", "CCER"} -> "CNY"
    [] OTHER -> ""

\* new URL(string) does not throw, on the strings of the model
isValidUrl(string) ==
  \/ (Len(string) > 7 /\ SubSeq(string, 1, 7) = "http://")
  \/ (Len(string) > 8 /\ SubSeq(string, 1, 8) = "https://")

RECURSIVE LatestOf(_)
\* sameInstrumentRows.sort((a, b) => b.date.localeCompare(a.date))[0]
LatestOf(rows) ==
  IF Len(rows) = 1 THEN rows[1]
  ELSE LET rest == LatestOf(Tail(rows)) IN
       IF LocaleCompare(rest.date, Head(rows).date) > 0 THEN rest
       ELSE Head(rows)

ExtremeChangePercent == 50
LargeChangePercent == 20

\* the warning of the price anomaly check against the latest earlier row
ChangeIssues(row, previousRows) ==
  LET same == SelectSeq(previousRows, LAMBDA r :
                r.market_code = row.market_code
                /\ r.instrument_code = row.instrument_code)
  IN IF Len(same) = 0 THEN << >>
     ELSE LET prev == LatestOf(same).price IN
          IF ChangeExceeds(prev, row.price, ExtremeChangePercent)
            THEN << [text |-> "Extreme price change: "
                              \o PercentText(prev, row.price)
                              \o "% from previous day", cost |-> 15] >>
          ELSE IF ChangeExceeds(prev, row.price, LargeChangePercent)
            THEN << [text |-> "Large price change: "
                              \o PercentText(prev, row.price)
                              \o "% from previous day", cost |-> 5] >>
          ELSE << >>

Issue(cond, text, cost) ==
  IF cond THEN << [text |-> text, cost |-> cost] >> ELSE << >>

\* errors.push(...) with its score -= ..., in the order of the code
RowErrors(row, today) ==
  Issue(row.date = "" \/ ~IsoDateShaped(row.date), "Invalid date format", 30)
  \o Issue(row.price = 0 \/ row.price = NaN \/ row.price <= 0,
           "Invalid price value", 30)
  \o Issue(row.market_code \notin KnownMarkets, "Invalid market code", 20)
  \o Issue(DateGetTime(row.date) # NaN
           /\ DateGetTime(row.date) > DateGetTime(today),
           "Date cannot be in the future", 25)

\* warnings.push(...) with its score -= ..., in the order of the code
RowWarnings(row, previousRows) ==
  Issue(ExpectedCurrency(row.market_code) # ""
        /\ row.currency # ExpectedCurrency(row.market_code),
        "Currency mismatch: expected " \o ExpectedCurrency(row.market_code)
        \o " for " \o row.market_code, 10)
  \o ChangeIssues(row, previousRows)
  \o Issue(row.volume = 0, "Zero volume detected", 5)
  \o Issue(row.volume > 1000000000, "Unusually high volume", 5)
  \o Issue(row.market_code = "CEA" /\ row.price # NaN
           /\ (row.price > 20000 \/ row.price < 1000),
           "CEA price outside normal range (10-200 CNY)", 10)
  \o Issue(row.market_code = "CDR" /\ row.price # NaN
           /\ (row.price < 10000 \/ row.price > 200000),
           "CDR price outside typical range (100-2000 USD)", 10)
  \o Issue(row.source_url = "" \/ ~isValidUrl(row.source_url),
           "Invalid or missing source URL", 5)

RECURSIVE Cost(_)
Cost(issues) ==
  IF Len(issues) = 0 THEN 0 ELSE Head(issues).cost + Cost(Tail(issues))

Texts(issues) == [k \in 1..Len(issues) |-> issues[k].text]

validatePriceData(row, previousRows, today) ==
  LET errors == RowErrors(row, today)
      warnings == RowWarnings(row, previousRows)
  IN [passed |-> Len(errors) = 0,
      warnings |-> Texts(warnings),
      errors |-> Texts(errors),
      score |-> Max(0, 100 - Cost(errors) - Cost(warnings))]

\* `${row.market_code}-${row.instrument_code}-${row.date}`
DuplicateKey(row) ==
  row.market_code \o "-" \o row.instrument_code \o "-" \o row.date

RECURSIVE DuplicatesFrom(_, _)
\* the loop of checkDuplicates with the set seen so far
DuplicatesFrom(rows, seen) ==
  IF Len(rows) = 0 THEN << >>
  ELSE LET key == DuplicateKey(Head(rows)) IN
       (IF key \in seen THEN << "Duplicate entry: " \o key >> ELSE << >>)
       \o DuplicatesFrom(Tail(rows), seen \cup {key})

checkDuplicates(rows) == DuplicatesFrom(rows, {})

RECURSIVE RowChecks(_, _, _)
\* the checks of the rows from index i on, each against the whole batch
RowChecks(rows, i, today) ==
  IF i > Len(rows) THEN << >>
  ELSE << validatePriceData(rows[i], rows, today) >>
       \o RowChecks(rows, i + 1, today)

RECURSIVE CheckIssues(_)
\* issues.push(...check.errors, ...check.warnings), check after check
CheckIssues(checks) ==
  IF Len(checks) = 0 THEN << >>
  ELSE Head(checks).errors \o Head(checks).warnings
       \o CheckIssues(Tail(checks))

RECURSIVE ScoreSum(_)
ScoreSum(checks) ==
  IF Len(checks) = 0 THEN 0 ELSE Head(checks).score + ScoreSum(Tail(checks))

IssueCap == 100
PassingScore == 60
LowQualityScore == 70

\* issues.filter(i => i.toLowerCase().includes('error')).length
ErrorCount(issues) ==
  Cardinality({k \in 1..Len(issues) : Includes(ToLowerCase(issues[k]), "error")})

\* the recommendations are named by what they say: LOW_QUALITY (quality
\* low, check the sources and the pipeline), DUPLICATES (duplicates present,
\* check the dedup logic), HIGH_ERROR_RATE (error rate too high, pause the
\* automatic import for a manual review).  overallScore is in hundredths.
assessBatchQuality(rows, today) ==
  LET duplicates == checkDuplicates(rows)
      checks == RowChecks(rows, 1, today)
      counted == SelectSeq(checks, LAMBDA c : c.passed \/ c.score >= PassingScore)
      issues == duplicates \o CheckIssues(checks)
      validRows == Len(counted)
      overallScore == IF validRows > 0
                        THEN (100 * ScoreSum(counted)) \div validRows ELSE 0
  IN [overallScore |-> overallScore,
      issues |-> SubSeq(issues, 1, Min(Len(issues), IssueCap)),
      recommendations |->
        (IF overallScore < 100 * LowQualityScore THEN << "LOW_QUALITY" >> ELSE << >>)
        \o (IF Len(duplicates) > 0 THEN << "DUPLICATES" >> ELSE << >>)
        \o (IF 10 * ErrorCount(issues) > Len(rows)
              THEN << "HIGH_ERROR_RATE" >> ELSE << >>)]

(***************************************************************************)
(* The import sink's reading of a posted CSV: CSVParser.parseCSV splits    *)
(* the lines into fields, names them by the header line and hands each row *)
(* to CSVRowSchema.parse.  A row is a function from column names to the    *)
(* strings of its fields.                                                  *)
(***************************************************************************)
RECURSIVE SplitOn(_, _)
\* s.split(sep)
SplitOn(s, sep) ==
  IF ~Includes(s, sep) THEN << s >>
  ELSE LET i == CHOOSE k \in 1..Len(s) :
                  /\ SubSeq(s, k, k + Len(sep) - 1) = sep
                  /\ \A l \in 1..(k - 1) : SubSeq(s, l, l + Len(sep) - 1) # sep
       IN << SubSeq(s, 1, i - 1) >>
          \o SplitOn(SubSeq(s, i + Len(sep), Len(s)), sep)

\* the fields Papa.parse reads from a line whose fields are all quoted and
\* hold no quote themselves; an unquoted line is split at the commas
PapaFields(line) ==
  IF Len(line) >= 2 /\ CharAt(line, 1) = "\"" /\ CharAt(line, Len(line)) = "\""
    THEN SplitOn(SubSeq(line, 2, Len(line) - 1), "\",\"")
    ELSE SplitOn(line, ",")

\* header: true with transformHeader: the row object of a data line
PapaRow(headerLine, line) ==
  LET names == [i \in 1..Len(PapaFields(headerLine)) |->
                  ToLowerCase(PapaFields(headerLine)[i])]
      fields == PapaFields(line)
      cols == {i \in 1..Len(names) : i <= Len(fields)}
  IN [name \in {names[i] : i \in cols} |->
        fields[CHOOSE i \in cols : names[i] = name]]

\* Number(s) of z.coerce.number(), in hundredths, on decimal strings of at
\* most two places; NaN otherwise
CoerceNumber(s) ==
  LET negative == Len(s) > 0 /\ CharAt(s, 1) = "-"
      body == IF negative THEN SubSeq(s, 2, Len(s)) ELSE s
      parts == SplitOn(body, ".")
      whole == parts[1]
      frac == IF Len(parts) = 2 THEN parts[2] ELSE ""
      value == 100 * DigitsValue(whole)
               + (IF Len(frac) = 1 THEN 10 * DigitsValue(frac)
                  ELSE DigitsValue(frac))
  IN IF s = "" THEN 0
     ELSE IF Len(parts) > 2 \/ Len(whole) = 0 \/ ~AllDigits(whole)
             \/ ~AllDigits(frac) \/ Len(frac) > 2
             \/ (Len(parts) = 2 /\ Len(frac) = 0)
       THEN NaN
     ELSE IF negative THEN 0 - value ELSE value

MarketCode == {"EU", "UK", "CCA", "CEA", "CCER", "CDR"}
PriceType == {"SETTLEMENT", "CLOSE", "MID", "OPEN", "HIGH", "LOW"}
Currency == {"EUR", "GBP", "USD", "CNY"}

Has(row, name) == name \in DOMAIN row

\* CSVRowSchema.parse(row) does not throw
CSVRowSchema(row) ==
  /\ Has(row, "market_code") /\ row["market_code"] \in MarketCode
  /\ Has(row, "instrument_code") /\ Len(row["instrument_code"]) >= 1
  /\ Has(row, "date") /\ IsoDateShaped(row["date"])
  /\ Has(row, "price") /\ CoerceNumber(row["price"]) # NaN
                       /\ CoerceNumber(row["price"]) > 0
  /\ Has(row, "price_type") => row["price_type"] \in PriceType
  /\ Has(row, "currency") /\ row["currency"] \in Currency
  /\ Has(row, "volume") => /\ CoerceNumber(row["volume"]) # NaN
                           /\ CoerceNumber(row["volume"]) >= 0
  /\ Has(row, "source_url") => isValidUrl(row["source_url"])

(***************************************************************************)
(* The retry policy and the history trim of executeTask.                   *)
(***************************************************************************)
\* mutant: the comparison off by one
ShouldRetryInclusive(retryCount, maxRetries) == retryCount <= maxRetries

\* task.retryCount < task.maxRetries
ShouldRetry(retryCount, maxRetries) == retryCount < maxRetries

\* mutant: a fixed delay
RetryDelayFlat(retryCount) == RetryDelayMinutes

\* setTimeout(..., task.retryCount * 5 * 60 * 1000), in minutes
RetryDelay(retryCount) == retryCount * RetryDelayMinutes

\* mutant: only successes are recorded
PushSuccessOnly(history, result) ==
  IF result.success THEN Append(history, result) ELSE history

\* mutant: a plain cap, the newest HistoryCap entries
PushCapped(history, result) == SliceLast(Append(history, result), HistoryCap)

\* this.executionHistory.push(result); if (length > 1000) slice(-500)
PushHistory(history, result) ==
  LET pushed == Append(history, result)
  IN IF Len(pushed) > HistoryCap THEN SliceLast(pushed, HistoryKeep) ELSE pushed

VARIABLES
  tasks,             \* this.tasks: id -> ScheduledTask
  executionHistory,  \* this.executionHistory
  isRunning,         \* this.isRunning
  cronJobs,          \* id -> number of live cron.schedule registrations
  timers,            \* pending setTimeout retries, in creation order
  execs,             \* executeTask calls in flight
  alerts,            \* alerts emitted by sendAlert
  posts,             \* POSTs issued to the import API by submitDataToAPI
  allCall,           \* the executeAllTasks call in progress
  now,               \* logical clock: one tick per executeTask start
  allResults,        \* history variable: every result ever appended
  rejected,          \* what the last call was refused with ("": nothing)
  fx                 \* the adapter / quality-checker call last made: [fn, in, out]

vars == << tasks, executionHistory, isRunning, cronJobs, timers, execs, alerts,
           posts, allCall, now, allResults, rejected, fx >>

(***************************************************************************)
(* State after `new TaskScheduler()`.                                      *)
(***************************************************************************)
NoResult ==
  [taskId |-> "", success |-> FALSE, recordCount |-> 0, errors |-> << >>,
   timestamp |-> NoDate]

IdleCall ==
  [state |-> "idle", idx |-> 0, results |-> << >>, waitingOn |-> 0,
   value |-> NoResult]

NoCall == [fn |-> "", in |-> << >>, out |-> << >>]

Init ==
  /\ fx = NoCall
  /\ tasks = initializeAdapters
  /\ executionHistory = << >>
  /\ isRunning = FALSE
  /\ cronJobs = [t \in TaskIds |-> 0]
  /\ timers = << >>
  /\ execs = {}
  /\ alerts = << >>
  /\ posts = << >>
  /\ allCall = IdleCall
  /\ now = 0
  /\ allResults = << >>
  /\ rejected = ""

InFlight(t) == {e \in execs : e.taskId = t}

(***************************************************************************)
(* executeTask, lines 108-129: the synchronous part of a call on a known   *)
(* id, up to `await task.adapter.collectData()`.  NewExec is the call's    *)
(* frame: its id, its position and its `result` object.                    *)
(***************************************************************************)
NewExec(id, t, trigger) ==
  [id |-> id, taskId |-> t, trigger |-> trigger, pc |-> "collecting",
   data |-> << >>,
   result |-> [taskId |-> t, success |-> FALSE, recordCount |-> 0,
               errors |-> << >>, timestamp |-> id]]

\* k calls of executeTask(t) made back to back in one synchronous segment
StartExecs(t, trigger, k) ==
  /\ now' = now + k
  /\ execs' = execs \cup {NewExec(now + i, t, trigger) : i \in 1..k}

(***************************************************************************)
(* executeTask, lines 176-184: record the result and return it.  A caller  *)
(* awaiting the call (executeAllTasks) is resumed with the value.          *)
(***************************************************************************)
Finish(e, result) ==
  /\ executionHistory' = PushHistory(executionHistory, result)
  /\ allResults' = Append(allResults, result)
  /\ execs' = execs \ {e}
  /\ allCall' = IF allCall.state = "waiting" /\ allCall.waitingOn = e.id
                  THEN [allCall EXCEPT !.state = "settled", !.value = result]
                  ELSE allCall

(***************************************************************************)
(* executeTask, lines 149-154: the success path.                           *)
(***************************************************************************)
Succeed(e, recordCount) ==
  /\ tasks' = [tasks EXCEPT ![e.taskId].retryCount = 0,
                            ![e.taskId].lastRun = now]
  /\ Finish(e, [e.result EXCEPT !.success = TRUE, !.recordCount = recordCount])
  /\ UNCHANGED << timers, alerts >>

(***************************************************************************)
(* executeTask, lines 156-174: the catch block.  The retry branch has no   *)
(* await, so the result is recorded in the same segment; the alert branch  *)
(* awaits sendAlert (which has logged the alert by then) and records the   *)
(* result in the next segment (AlertDone).                                 *)
(***************************************************************************)
Catch(e, result, errorMessage) ==
  LET t == e.taskId
      retryCount == tasks[t].retryCount + 1
      failed == [result EXCEPT !.errors = Append(@, errorMessage)]
  IN /\ tasks' = [tasks EXCEPT ![t].retryCount = retryCount]
     /\ IF ShouldRetry(retryCount, tasks[t].maxRetries)
          THEN /\ timers' = Append(timers, [taskId |-> t,
                                            delay |-> RetryDelay(retryCount)])
               /\ alerts' = alerts
               /\ Finish(e, failed)
          ELSE /\ alerts' = Append(alerts, [taskId |-> t, error |-> errorMessage])
               /\ timers' = timers
               /\ execs' = (execs \ {e}) \cup
                             {[e EXCEPT !.pc = "alerting", !.result = failed]}
               /\ UNCHANGED << executionHistory, allResults, allCall >>

AlertDone(e) ==
  /\ e.pc = "alerting"
  /\ Finish(e, e.result)
  /\ rejected' = ""
  /\ UNCHANGED << tasks, isRunning, cronJobs, timers, alerts, posts, now >>

(***************************************************************************)
(* executeTask, line 129: collectData settles.  CEA and CCER launch the    *)
(* browser outside their try block, so the promise can reject.             *)
(***************************************************************************)
CollectResolve(e, batch) ==
  /\ e.pc = "collecting"
  /\ execs' = (execs \ {e}) \cup {[e EXCEPT !.pc = "validating", !.data = batch]}
  /\ rejected' = ""
  /\ UNCHANGED << tasks, executionHistory, isRunning, cronJobs, timers, alerts,
                  posts, allCall, now, allResults >>

CollectReject(e) ==
  /\ e.pc = "collecting"
  /\ Catch(e, e.result, "collectData failed")
  /\ rejected' = ""
  /\ UNCHANGED << isRunning, cronJobs, posts, now >>

(***************************************************************************)
(* executeTask, lines 132-147: validateData settles; a hard error throws,  *)
(* a non-empty batch is handed to submitDataToAPI (lines 187-201), which   *)
(* converts all of it and issues the POST, and an empty one succeeds       *)
(* without a submission.                                                   *)
(***************************************************************************)
\* mutant: submitDataToAPI called for an empty batch too
ShouldSubmitAlways(data) == TRUE

\* if (data.length > 0), line 144
ShouldSubmit(data) == Len(data) > 0

\* mutant: only the first record is submitted
SubmittedFirstOnly(data) == SubSeq(data, 1, 1)

\* the records submitDataToAPI is called with
SubmittedRecords(data) == data

Validate(e) ==
  LET validation == validateData(AdapterOf(e.taskId), e.data)
      withErrors == [e.result EXCEPT !.errors = @ \o validation.errors]
  IN /\ e.pc = "validating"
     /\ IF ~validation.isValid /\ Len(validation.errors) > 0
          THEN /\ Catch(e, withErrors,
                        "Data validation failed: " \o Join(validation.errors, ", "))
               /\ posts' = posts
               /\ rejected' = ""
          ELSE IF ShouldSubmit(e.data)
          THEN /\ posts' = Append(posts,
                      [exec |-> e.id,
                       csv |-> convertToCSVFormat(SubmittedRecords(e.data))])
               /\ execs' = (execs \ {e}) \cup {[e EXCEPT !.pc = "submitting"]}
               /\ rejected' = ""
               /\ UNCHANGED << tasks, executionHistory, timers, alerts, allCall,
                               allResults >>
          ELSE /\ Succeed(e, 0)
               /\ posts' = posts
               /\ rejected' = ""
     /\ UNCHANGED << isRunning, cronJobs, now >>

(***************************************************************************)
(* submitDataToAPI, lines 198-214: the POST settles.                       *)
(***************************************************************************)
SubmitOutcomes == {"ok", "unreachable", "non2xx", "badjson"}

\* mutant: an unreadable body of a 2xx answer is let through
SubmitErrorLenient(outcome) ==
  CASE outcome = "ok" -> ""
    [] outcome = "unreachable" -> "fetch failed"
    [] outcome = "non2xx" -> "Import API failed: 500 - Unknown error"
    [] outcome = "badjson" -> ""

\* does submitDataToAPI throw, and with what message
SubmitError(outcome) ==
  CASE outcome = "ok" -> ""
    [] outcome = "unreachable" -> "fetch failed"
    [] outcome = "non2xx" -> "Import API failed: 500 - Unknown error"
    [] outcome = "badjson" -> "Unexpected token < in JSON at position 0"

SubmitSettle(e, outcome) ==
  /\ e.pc = "submitting"
  /\ IF SubmitError(outcome) = ""
       THEN Succeed(e, Len(e.data))
       ELSE Catch(e, e.result, SubmitError(outcome))
  /\ rejected' = ""
  /\ UNCHANGED << isRunning, cronJobs, posts, now >>

(***************************************************************************)
(* The triggers of executeTask.                                            *)
(***************************************************************************)
\* executeTask(taskId) called from outside (the CLI's `run <taskId>`)
ManualExecute(taskId) ==
  /\ IF taskId \in TaskIds
       THEN /\ StartExecs(taskId, "manual", 1)
            /\ rejected' = ""
       ELSE /\ UNCHANGED << now, execs >>
            /\ rejected' = "Task not found: " \o taskId
  /\ UNCHANGED << tasks, executionHistory, isRunning, cronJobs, timers, alerts,
                  posts, allCall, allResults >>

\* the schedule of task t comes due: every cron job registered for it runs
\* its callback, `await this.executeTask(taskId)` (lines 87-89)
CronTick(t) ==
  /\ cronJobs[t] > 0
  /\ StartExecs(t, "cron", cronJobs[t])
  /\ rejected' = ""
  /\ UNCHANGED << tasks, executionHistory, isRunning, cronJobs, timers, alerts,
                  posts, allCall, allResults >>

\* a retry timer set at lines 165-168 expires
RetryFire(i) ==
  /\ i \in 1..Len(timers)
  /\ timers' = RemoveAt(timers, i)
  /\ StartExecs(timers[i].taskId, "retry", 1)
  /\ rejected' = ""
  /\ UNCHANGED << tasks, executionHistory, isRunning, cronJobs, alerts, posts,
                  allCall, allResults >>

(***************************************************************************)
(* start and stop, lines 75-106.  cron.schedule returns a job the code     *)
(* drops, so a registration lives for the rest of the process.             *)
(***************************************************************************)
\* mutant: start() without the isRunning guard
RegistrationsUnguarded(running, enabled) == IF enabled THEN 1 ELSE 0

\* the registrations start() adds for a task
Registrations(running, enabled) == IF ~running /\ enabled THEN 1 ELSE 0

start ==
  /\ isRunning' = TRUE
  /\ cronJobs' = [t \in TaskIds |->
                    cronJobs[t] + Registrations(isRunning, tasks[t].enabled)]
  /\ tasks' = [t \in TaskIds |->
                 IF Registrations(isRunning, tasks[t].enabled) > 0
                   THEN [tasks[t] EXCEPT !.nextRun = now + DayMs]
                   ELSE tasks[t]]
  /\ rejected' = IF isRunning THEN "Task scheduler is already running" ELSE ""
  /\ UNCHANGED << executionHistory, timers, execs, alerts, posts, allCall, now,
                  allResults >>

stop ==
  /\ isRunning' = FALSE
  /\ rejected' = ""
  /\ UNCHANGED << tasks, executionHistory, cronJobs, timers, execs, alerts,
                  posts, allCall, now, allResults >>

(***************************************************************************)
(* enableTask / disableTask, lines 285-301.                                *)
(***************************************************************************)
SetEnabled(taskId, value) ==
  /\ taskId \in TaskIds
  /\ tasks' = [tasks EXCEPT ![taskId].enabled = value]
  /\ rejected' = ""
  /\ UNCHANGED << executionHistory, isRunning, cronJobs, timers, execs, alerts,
                  posts, allCall, now, allResults >>

enableTask(taskId) == SetEnabled(taskId, TRUE)

disableTask(taskId) == SetEnabled(taskId, FALSE)

(***************************************************************************)
(* executeAllTasks, lines 348-374.  The loop walks the map in insertion    *)
(* order, skips the tasks that are disabled when it reaches them, and      *)
(* awaits each executeTask before it goes on.  The ids come from the map   *)
(* itself, so executeTask cannot throw here and the catch at lines 358-369 *)
(* has no way to run.                                                      *)
(***************************************************************************)
\* mutant: the loop without the `if (task.enabled)`
NextInMap(i) == IF i <= NumTasks THEN i ELSE 0

\* the index of the next task the loop executes from position i on; 0: none
NextToRun(i) ==
  LET S == {j \in i..NumTasks : tasks[TaskOrder[j]].enabled}
  IN IF S = {} THEN 0 ELSE CHOOSE j \in S : \A k \in S : j <= k

\* mutant: executeTask called without `await`
AllLoopNoAwait(i, results) ==
  LET S == {j \in i..NumTasks : tasks[TaskOrder[j]].enabled}
      j == IF S = {} THEN 0 ELSE CHOOSE k \in S : \A l \in S : k <= l
  IN IF j = 0
       THEN /\ allCall' = [IdleCall EXCEPT !.results = results]
            /\ UNCHANGED << now, execs >>
       ELSE /\ StartExecs(TaskOrder[j], "all", 1)
            /\ allCall' = [state |-> "settled", idx |-> j, results |-> results,
                           waitingOn |-> now + 1, value |-> NoResult]

\* the loop runs from position i with `results` collected so far
AllLoop(i, results) ==
  LET j == NextToRun(i)
  IN IF j = 0
       THEN /\ allCall' = [IdleCall EXCEPT !.results = results]
            /\ UNCHANGED << now, execs >>
       ELSE /\ StartExecs(TaskOrder[j], "all", 1)
            /\ allCall' = [state |-> "waiting", idx |-> j, results |-> results,
                           waitingOn |-> now + 1, value |-> NoResult]

executeAllTasks ==
  /\ allCall.state = "idle"
  /\ AllLoop(1, << >>)
  /\ rejected' = ""
  /\ UNCHANGED << tasks, executionHistory, isRunning, cronJobs, timers, alerts,
                  posts, allResults >>

\* the awaited executeTask has returned: results.push(result), next iteration
AllResume ==
  /\ allCall.state = "settled"
  /\ AllLoop(allCall.idx + 1, Append(allCall.results, allCall.value))
  /\ rejected' = ""
  /\ UNCHANGED << tasks, executionHistory, isRunning, cronJobs, timers, alerts,
                  posts, allResults >>

(***************************************************************************)
(* The scheduler under every interleaving of its triggers, its management  *)
(* calls and the settling of its awaits, within the bounds.                *)
(***************************************************************************)
CanStart(k) ==
  /\ now + k <= MaxStarts
  /\ Cardinality(execs) + k <= MaxInFlight

\* the awaits of the executions in flight settle, collectData returning a
\* batch of BatchesOf(task) and the import API answering with one of Outcomes
Settle(BatchesOf(_), Outcomes) ==
  \/ \E e \in execs : \E batch \in BatchesOf(e.taskId) : CollectResolve(e, batch) /\ UNCHANGED fx
  \/ \E e \in execs : Validate(e) /\ UNCHANGED fx
  \/ \E e \in execs : \E outcome \in Outcomes : SubmitSettle(e, outcome) /\ UNCHANGED fx
  \/ \E e \in execs : AlertDone(e) /\ UNCHANGED fx

\* the batch and the answers the interleaving models draw
FewBatches(t) ==
  LET a == AdapterOf(t) IN
  { << Rec(a.marketCode, a.currency, "2024-01-10", 3000, 100) >> }

FewOutcomes == {"ok", "non2xx"}

(***************************************************************************)
(* Spec: every trigger of executeTask (manual call, cadence tick, retry    *)
(* timer, executeAllTasks) and the enable/disable toggles, interleaved at  *)
(* every await.  Calls that are refused (unknown id, start while running)  *)
(* are in SpecRetry and SpecCadence.                                       *)
(***************************************************************************)
Next ==
  \/ \E id \in TaskIds : CanStart(1) /\ ManualExecute(id) /\ UNCHANGED fx
  \/ \E t \in TaskIds : CanStart(cronJobs[t]) /\ CronTick(t) /\ UNCHANGED fx
  \/ \E i \in 1..Len(timers) : CanStart(1) /\ RetryFire(i) /\ UNCHANGED fx
  \/ ~isRunning /\ start /\ UNCHANGED fx
  \/ \E id \in TaskIds : enableTask(id) /\ UNCHANGED fx
  \/ \E id \in TaskIds : disableTask(id) /\ UNCHANGED fx
  \/ CanStart(1) /\ executeAllTasks /\ UNCHANGED fx
  \/ (CanStart(1) \/ NextToRun(allCall.idx + 1) = 0) /\ AllResume /\ UNCHANGED fx
  \/ Settle(FewBatches, FewOutcomes)

Spec == Init /\ [][Next]_vars

(***************************************************************************)
(* SpecRetry: the first task run one execution at a time, by manual calls  *)
(* (known and unknown id) and by its own retry timers, with every batch    *)
(* and every answer of the import API.                                     *)
(***************************************************************************)
CanRetryRun == now < MaxRetryRuns /\ execs = {}

NextRetry ==
  \/ \E id \in {TaskOrder[1], UnknownId} : CanRetryRun /\ ManualExecute(id) /\ UNCHANGED fx
  \/ \E i \in 1..Len(timers) : CanRetryRun /\ RetryFire(i) /\ UNCHANGED fx
  \/ \E e \in execs : CollectReject(e) /\ UNCHANGED fx
  \/ Settle(Batches, SubmitOutcomes)

SpecRetry == Init /\ [][NextRetry]_vars

(***************************************************************************)
(* SpecCadence: start, stop and the toggles against the cadence ticks and  *)
(* the retry timers.                                                       *)
(***************************************************************************)
NextCadence ==
  \/ (\A t \in TaskIds : cronJobs[t] < MaxRegs) /\ start /\ UNCHANGED fx
  \/ stop /\ UNCHANGED fx
  \/ \E id \in TaskIds : enableTask(id) /\ UNCHANGED fx
  \/ \E id \in TaskIds : disableTask(id) /\ UNCHANGED fx
  \/ \E t \in TaskIds : CanStart(cronJobs[t]) /\ CronTick(t) /\ UNCHANGED fx
  \/ \E i \in 1..Len(timers) : CanStart(1) /\ RetryFire(i) /\ UNCHANGED fx
  \/ Settle(FewBatches, FewOutcomes)

SpecCadence == Init /\ [][NextCadence]_vars

(***************************************************************************)
(* SpecHistFull: one long sequential run of the first task, from the       *)
(* constructor to past the cap of the history.  collectData returns no     *)
(* record, so every execution succeeds without a submission; the results   *)
(* differ in their timestamps.                                             *)
(***************************************************************************)
NextHist ==
  \/ (now < MaxHistRuns /\ execs = {}) /\ ManualExecute(TaskOrder[1]) /\ UNCHANGED fx
  \/ \E e \in execs : CollectResolve(e, << >>) /\ UNCHANGED fx
  \/ \E e \in execs : Validate(e) /\ UNCHANGED fx

SpecHistFull == Init /\ [][NextHist]_vars

(***************************************************************************)
(* SpecHist: the same run, taken up after its first n executions, for      *)
(* every n from HistPrefill to the cap.  Ran(n) is the state SpecHistFull  *)
(* is in when the n-th execution has returned.                             *)
(***************************************************************************)
Ran(n) ==
  LET t == TaskOrder[1]
      done == [i \in 1..n |->
                 [taskId |-> t, success |-> TRUE, recordCount |-> 0,
                  errors |-> << >>, timestamp |-> i]]
  IN /\ tasks = [initializeAdapters EXCEPT ![t].lastRun = n]
     /\ executionHistory = done
     /\ allResults = done
     /\ now = n
     /\ isRunning = FALSE
     /\ cronJobs = [u \in TaskIds |-> 0]
     /\ timers = << >>
     /\ execs = {}
     /\ alerts = << >>
     /\ posts = << >>
     /\ allCall = IdleCall
     /\ rejected = ""
     /\ fx = NoCall

InitHist == \E n \in HistPrefill..HistoryCap : Ran(n)

SpecHist == InitHist /\ [][NextHist]_vars

(***************************************************************************)
(* SpecCollect: one call of an adapter's collectData on one of the         *)
(* payloads below, the scheduler left in the state the constructor leaves. *)
(***************************************************************************)
schedVars == << tasks, executionHistory, isRunning, cronJobs, timers, execs,
                alerts, posts, allCall, now, allResults, rejected >>

SeqsUpTo(S, n) == UNION {[1..k -> S] : k \in 0..n}

Row(d, p, v) == [date |-> d, price |-> p, volume |-> v]

\* rows of the CNEEEX table: date, price and volume cells
CEARowSet ==
  { Row("2024-01-10", "30", "1,000T"),
    Row("2024Y01M12D", "¥31.50", "2W"),
    Row("2024-01-07", "32", "-"),
    Row("2024-01-13", "33", ""),
    Row("2024-01-14", "34", "-"),
    Row("2024-13-45", "30", "-"),
    Row("n/a", "30", "-"),
    Row("2024-01-11", "abc", "-"),
    Row("2024-01-11", "0", "-"),
    Row("2024-01-11", "35", "-5"),
    Row("2024-01-11", "36", "abc") }

CallCEA ==
  /\ fx = NoCall
  /\ \E loaded \in BOOLEAN :
       \E rows \in (IF loaded THEN SeqsUpTo(CEARowSet, MaxRows) ELSE {<< >>}) :
         LET page == [loaded |-> loaded, rows |-> rows] IN
         fx' = [fn |-> "CEA.collectData",
                in |-> [page |-> page, target |-> TargetDate],
                out |-> CEAcollectData(page, TargetDate)]
  /\ UNCHANGED schedVars

Cell2(d, p) == [date |-> d, price |-> p]

\* date and price cells of the CCER exchanges' tables
CCERRowSet ==
  { Cell2("2024-01-10", "30"),
    Cell2("2024/1/12", "¥31.50"),
    Cell2("2024-01-31", "32"),
    Cell2("2024-13-45", "33"),
    Cell2("n/a", "34"),
    Cell2("2024-01-11", "abc"),
    Cell2("2024-01-11", "0"),
    Cell2("2024-01-11", "-5") }

\* records of the CARB CSV files
CCARowSet ==
  { Row("2024-01-10", "$30", "1,000"),
    Row("01/12/2024", "31.50", ""),
    Row("1/7/24", "32", "0"),
    Row("2024-01-13", "33", "-5"),
    Row("2024-01-14", "34", "2"),
    Row("2024-13-45", "35", "2"),
    Row("2024-01-11", "abc", "2"),
    Row("2024-01-11", "0", "2") }

\* items of the CDR prices API
CDRItemSet ==
  { Row("2024-01-10", "30", "2"),
    Row("2024-01-31", "32", ""),
    Row("n/a", "33", "2"),
    Row("2024-01-11", "abc", "2"),
    Row("2024-01-11", "0", "2"),
    Row("2024-01-11", "-5", "2"),
    Row("2024-01-11", "34", "-5"),
    Row("", "35", "2") }

\* transactions of the CDR transactions API
CDRTransactionSet ==
  { Row("2024-01-10", 3000, 100),
    Row("2024-01-10", 3200, 100),
    Row("2024-01-15", 3000, 100),
    Row("2024-01-16", 3000, 100),
    Row("2024-01-05", 3000, 0),
    Row("2024-01-10", 3000, -500),
    Row("n/a", 3000, 100) }

\* what a source can serve: a failure, or up to MaxSourceRows rows
Payloads(RowSet) ==
  {[ok |-> FALSE, rows |-> << >>]}
  \cup {[ok |-> TRUE, rows |-> rows] : rows \in SeqsUpTo(RowSet, MaxSourceRows)}

CallCCER ==
  /\ fx = NoCall
  /\ \E p1 \in Payloads(CCERRowSet), p2 \in Payloads(CCERRowSet) :
       fx' = [fn |-> "CCER.collectData",
              in |-> [payloads |-> << p1, p2 >>, target |-> TargetDate],
              out |-> CCERcollectData(<< p1, p2 >>, TargetDate)]
  /\ UNCHANGED schedVars

CallCCA ==
  /\ fx = NoCall
  /\ \E p1 \in Payloads(CCARowSet), p2 \in Payloads(CCARowSet) :
       fx' = [fn |-> "CCA.collectData",
              in |-> [payloads |-> << p1, p2 >>, target |-> TargetDate],
              out |-> CCAcollectData(<< p1, p2 >>, TargetDate)]
  /\ UNCHANGED schedVars

CallCDR ==
  /\ fx = NoCall
  /\ \E p1 \in Payloads(CDRItemSet), p2 \in Payloads(CDRTransactionSet) :
       fx' = [fn |-> "CDR.collectData",
              in |-> [payloads |-> << p1, p2 >>, target |-> TargetDate],
              out |-> CDRcollectData(<< p1, p2 >>, TargetDate)]
  /\ UNCHANGED schedVars

NextCollect ==
  \/ CallCEA
  \/ CallCCER
  \/ CallCCA
  \/ CallCDR

SpecCollect == Init /\ [][NextCollect]_vars

(***************************************************************************)
(* The quality checks called on every batch of up to MaxBatch records      *)
(* drawn from QualityRecords: one call per behaviour, recorded in fx.      *)
(***************************************************************************)
QualityRecords ==
  { Rec("CCA", "USD", "2024-01-10", 3000, 100),
    Rec("CCA", "USD", "2024-01-11", 3150, NoVolume),
    Rec("CCA", "USD", "2024-01-12", 6500, 100),
    Rec("CCA", "USD", "2024-01-12", 3200, 100),
    Rec("EU", "USD", "2024-01-11", 8000, NoVolume),
    Rec("CCA", "USD", "2024-01-10", 0, 100),
    Rec("CCA", "USD", "2024-01-11", -500, NoVolume),
    Rec("", "USD", "2024-01-12", 3200, 100) }

QualityBatches == SeqsUpTo(QualityRecords, MaxBatch)

PriceRanges ==
  { [min |-> 500, max |-> 10000], [min |-> 3000, max |-> 6500],
    [min |-> 3150, max |-> 3150] }

CallValidate ==
  /\ fx = NoCall
  /\ \E a \in 1..Len(Adapters), records \in QualityBatches :
       fx' = [fn |-> "validateData",
              in |-> [adapter |-> Adapters[a], records |-> records],
              out |-> validateData(Adapters[a], records)]
  /\ UNCHANGED schedVars

CallCCAValidate ==
  /\ fx = NoCall
  /\ \E records \in QualityBatches :
       fx' = [fn |-> "CCA.validateData", in |-> [records |-> records],
              out |-> CCAvalidateData(records)]
  /\ UNCHANGED schedVars

CallCalculateScore ==
  /\ fx = NoCall
  /\ \E records \in QualityBatches :
       fx' = [fn |-> "calculateScore", in |-> [records |-> records],
              out |-> calculateScore(records)]
  /\ UNCHANGED schedVars

CallCheckQuality ==
  /\ fx = NoCall
  /\ \E records \in QualityBatches, range \in PriceRanges :
       LET options == [CCAOptions EXCEPT !.expectedPriceRange = range]
       IN fx' = [fn |-> "checkQuality",
                 in |-> [records |-> records, options |-> options],
                 out |-> checkQuality(records, options)]
  /\ UNCHANGED schedVars

ParsedRows ==
  { ParsedRow("CCA", "CCA", "2024-01-10", 3000, "USD", 100, "http://source"),
    ParsedRow("CCA", "CCA", "2024-01-11", 3150, "USD", NoVolume, "http://source"),
    ParsedRow("CCA", "CCA", "2024-01-10", 0, "USD", 0, ""),
    ParsedRow("CCA", "EUA", "2024-01-10", 3000, "USD", 100, "http://source"),
    ParsedRow("CCA", "EUA-2024", "01-10", 3000, "USD", 100, "http://source"),
    ParsedRow("XX", "ERROR", "2024-01-20", 3000, "USD", 100, "http://source") }

RowBatches == SeqsUpTo(ParsedRows, MaxBatch)

\* the day the calls run
Today == "2024-01-12"

CallCheckDuplicates ==
  /\ fx = NoCall
  /\ \E rows \in RowBatches :
       fx' = [fn |-> "checkDuplicates", in |-> [rows |-> rows],
              out |-> checkDuplicates(rows)]
  /\ UNCHANGED schedVars

CallAssessBatchQuality ==
  /\ fx = NoCall
  /\ \E rows \in RowBatches :
       fx' = [fn |-> "assessBatchQuality",
              in |-> [rows |-> rows, today |-> Today],
              out |-> assessBatchQuality(rows, Today)]
  /\ UNCHANGED schedVars

NextQuality ==
  \/ CallValidate
  \/ CallCCAValidate
  \/ CallCalculateScore
  \/ CallCheckQuality
  \/ CallCheckDuplicates
  \/ CallAssessBatchQuality

SpecQuality == Init /\ [][NextQuality]_vars

(***************************************************************************)
(* The two date normalisers called on every date the accepted formats      *)
(* write with the years, months and days below.                            *)
(***************************************************************************)
DateText(form, y, m, d) ==
  CASE form = "Y-M-D" -> y \o "-" \o m \o "-" \o d
    [] form = "Y/M/D" -> y \o "/" \o m \o "/" \o d
    [] form = "M/D/Y" -> m \o "/" \o d \o "/" \o y
    [] form = "YMD" -> y \o "Y" \o m \o "M" \o d \o "D"

DateInput(form, y, m, d) ==
  [form |-> form, year |-> y, month |-> m, day |-> d,
   text |-> DateText(form, y, m, d)]

InputMonths == {"1", "01", "12", "13", "0"}
InputDays == {"5", "05", "31", "32", "0"}

DateInputs ==
  {DateInput(form, y, m, d) :
     form \in {"Y-M-D", "Y/M/D", "M/D/Y", "YMD"},
     y \in {"2024", "2000", "1999"}, m \in InputMonths, d \in InputDays}
  \cup {DateInput("M/D/Y", y, m, d) :
          y \in {"24", "49", "50", "99"}, m \in InputMonths, d \in InputDays}

UtcOffsets == {0, 8}

CallNormalizeDate ==
  /\ fx = NoCall
  /\ \E input \in DateInputs :
       fx' = [fn |-> "normalizeDate", in |-> input,
              out |-> normalizeDate(input.text)]
  /\ UNCHANGED schedVars

CallParseDateString ==
  /\ fx = NoCall
  /\ \E input \in DateInputs, utcOffset \in UtcOffsets :
       fx' = [fn |-> "parseDateString", in |-> input,
              out |-> parseDateString(input.text, utcOffset)]
  /\ UNCHANGED schedVars

NextDates ==
  \/ CallNormalizeDate
  \/ CallParseDateString

SpecDates == Init /\ [][NextDates]_vars

(***************************************************************************)
(* fetchWithRetry under fetchJson / fetchCsv, one call step by step.  The  *)
(* frame of the call is kept in fx.out: pc, the loop variable attempt, the *)
(* number of fetch calls made, whether controller.signal is aborted, the   *)
(* seconds elapsed since the call, the backoff delays waited, lastError    *)
(* and the outcome.  Times are whole seconds.  The one AbortController and *)
(* its one timer are created before the loop; the timer is cleared only on *)
(* the way out.                                                            *)
(***************************************************************************)
DefaultTimeout == 10
Durations == {0, 1, 4}

\* Math.pow(2, attempt) * 1000 milliseconds, in seconds
RECURSIVE Backoff(_)
Backoff(attempt) == IF attempt = 0 THEN 1 ELSE 2 * Backoff(attempt - 1)

Frame(f) == fx.fn = "fetchJson" /\ fx.out.pc = f

FetchCall ==
  /\ fx = NoCall
  /\ \E retries \in 0..MaxFetchRetries :
       fx' = [fn |-> "fetchJson",
              in |-> [retries |-> retries, timeout |-> DefaultTimeout],
              out |-> [pc |-> "fetch", attempt |-> 0, calls |-> 0,
                       aborted |-> FALSE, elapsed |-> 0, delays |-> << >>,
                       lastError |-> "", outcome |-> ""]]
  /\ UNCHANGED schedVars

\* the catch block after a rejected fetch
Caught(out, error) ==
  [out EXCEPT !.lastError = error,
              !.pc = IF out.attempt = fx.in.retries THEN "throw" ELSE "delay"]

\* the fetch of this attempt resolves with a response before the timer is
\* due: clearTimeout, return response, whatever its status
AttemptResponds ==
  /\ Frame("fetch") /\ ~fx.out.aborted
  /\ \E d \in Durations, status \in {"200", "500"} :
       /\ fx.out.elapsed + d < fx.in.timeout
       /\ fx' = [fx EXCEPT !.out = [@ EXCEPT !.calls = @ + 1,
                                             !.elapsed = @ + d,
                                             !.pc = "returned",
                                             !.outcome = status]]
  /\ UNCHANGED schedVars

\* the fetch of this attempt rejects with a network error before the timer
\* is due
AttemptFails ==
  /\ Frame("fetch") /\ ~fx.out.aborted
  /\ \E d \in Durations :
       /\ fx.out.elapsed + d < fx.in.timeout
       /\ fx' = [fx EXCEPT !.out =
                   Caught([@ EXCEPT !.calls = @ + 1, !.elapsed = @ + d],
                          "network")]
  /\ UNCHANGED schedVars

\* the fetch of this attempt is still pending when the timer fires, or the
\* signal is aborted already: the fetch rejects with an AbortError
AttemptAborted ==
  /\ Frame("fetch")
  /\ fx' = [fx EXCEPT !.out =
              Caught([@ EXCEPT !.calls = @ + 1, !.aborted = TRUE,
                               !.elapsed = Max(@, fx.in.timeout)],
                     "AbortError")]
  /\ UNCHANGED schedVars

\* await new Promise(resolve => setTimeout(resolve, delay)); the abort timer
\* fires when it falls due meanwhile
BackoffDone ==
  /\ Frame("delay")
  /\ LET delay == Backoff(fx.out.attempt) IN
     fx' = [fx EXCEPT !.out = [@ EXCEPT
              !.delays = Append(@, delay),
              !.elapsed = @ + delay,
              !.aborted = @ \/ fx.out.elapsed + delay >= fx.in.timeout,
              !.attempt = @ + 1,
              !.pc = "fetch"]]
  /\ UNCHANGED schedVars

\* fetchJson / fetchCsv after fetchWithRetry: the thrown lastError goes
\* through, a response that is not ok is thrown as an HTTP error, an ok
\* response is read
FetchSettles ==
  /\ Frame("returned") \/ Frame("throw")
  /\ fx' = [fx EXCEPT !.out = [@ EXCEPT
              !.pc = "done",
              !.outcome = IF fx.out.pc = "throw" THEN "raised " \o fx.out.lastError
                          ELSE IF fx.out.outcome = "200" THEN "resolved"
                          ELSE "raised HTTP " \o fx.out.outcome]]
  /\ UNCHANGED schedVars

NextFetch ==
  \/ FetchCall
  \/ AttemptResponds
  \/ AttemptFails
  \/ AttemptAborted
  \/ BackoffDone
  \/ FetchSettles

SpecFetch == Init /\ [][NextFetch]_vars

(***************************************************************************)
(* SpecHealth: getHealthStatus, lines 310-346, probe by probe, against the *)
(* toggles and a run of the first task.  The frame of the call is kept in  *)
(* fx.out: the index of the task whose probe is awaited, the answers of    *)
(* the probes so far, taskHealth, and the scheduler status once returned.  *)
(***************************************************************************)
ProbeAnswers == {"healthy", "degraded", "unhealthy", "throws"}

\* mutant: degraded only above one half
SchedulerStatusStrict(healthyTasks, totalTasks) ==
  IF healthyTasks = totalTasks THEN "healthy"
  ELSE IF 2 * healthyTasks > totalTasks THEN "degraded"
  ELSE "unhealthy"

\* lines 329-339
SchedulerStatus(healthyTasks, totalTasks) ==
  IF healthyTasks = totalTasks THEN "healthy"
  ELSE IF 2 * healthyTasks >= totalTasks THEN "degraded"
  ELSE "unhealthy"

HealthCall ==
  /\ fx = NoCall
  /\ fx' = [fn |-> "getHealthStatus", in |-> << >>,
            out |-> [pc |-> "probe", idx |-> 1, probes |-> << >>,
                     taskHealth |-> << >>, scheduler |-> ""]]
  /\ UNCHANGED schedVars

\* the probe of the adapter of task idx settles; after the last one the
\* status is computed and the call returns
HealthProbe ==
  /\ fx.fn = "getHealthStatus" /\ fx.out.pc = "probe"
  /\ \E answer \in ProbeAnswers :
       LET status == IF answer = "throws" THEN "unhealthy" ELSE answer
           taskHealth == Append(fx.out.taskHealth,
                           [taskId |-> TaskOrder[fx.out.idx], status |-> status])
           healthyTasks == Cardinality({k \in 1..Len(taskHealth) :
                                          taskHealth[k].status = "healthy"})
           last == fx.out.idx = NumTasks
       IN fx' = [fx EXCEPT !.out = [@ EXCEPT
                   !.probes = Append(@, answer),
                   !.taskHealth = taskHealth,
                   !.idx = @ + 1,
                   !.pc = IF last THEN "returned" ELSE "probe",
                   !.scheduler = IF last
                                   THEN SchedulerStatus(healthyTasks, NumTasks)
                                   ELSE ""]]
  /\ UNCHANGED schedVars

NextHealth ==
  \/ HealthCall
  \/ HealthProbe
  \/ \E id \in TaskIds : enableTask(id) /\ UNCHANGED fx
  \/ \E id \in TaskIds : disableTask(id) /\ UNCHANGED fx
  \/ (now < 2 /\ execs = {}) /\ ManualExecute(TaskOrder[1]) /\ UNCHANGED fx
  \/ \E e \in execs : CollectReject(e) /\ UNCHANGED fx
  \/ \E e \in execs : \E batch \in FewBatches(e.taskId) :
       CollectResolve(e, batch) /\ UNCHANGED fx
  \/ \E e \in execs : Validate(e) /\ UNCHANGED fx
  \/ \E e \in execs : \E outcome \in FewOutcomes :
       SubmitSettle(e, outcome) /\ UNCHANGED fx

SpecHealth == Init /\ [][NextHealth]_vars

(***************************************************************************)
(* Vocabulary of the properties.  A step s -> s' is a step of execution e  *)
(* when e is in flight in s and its frame is gone or changed in s'.        *)
(***************************************************************************)
Last(seq) == seq[Len(seq)]

Steps(e) == e \in execs /\ e \notin execs'

\* the result object of e after the step
StepResult(e) ==
  IF \E f \in execs' : f.id = e.id
    THEN (CHOOSE f \in execs' : f.id = e.id).result
    ELSE Last(allResults')

\* e left the try block in this step: by the success path, by the catch block
Settled(e) ==
  /\ Steps(e)
  /\ e.pc # "alerting"
  /\ \/ \E f \in execs' : f.id = e.id /\ f.pc = "alerting"
     \/ \A f \in execs' : f.id # e.id

Succeeds(e) == Settled(e) /\ StepResult(e).success

Fails(e) == Settled(e) /\ ~StepResult(e).success

AlertEmitted(t) ==
  /\ Len(alerts') = Len(alerts) + 1
  /\ SubSeq(alerts', 1, Len(alerts)) = alerts
  /\ Last(alerts').taskId = t

\* the results of the finished executions of task t, oldest first
RECURSIVE ResultsOf(_, _)
ResultsOf(results, t) ==
  IF Len(results) = 0 THEN << >>
  ELSE (IF Head(results).taskId = t THEN << Head(results) >> ELSE << >>)
       \o ResultsOf(Tail(results), t)

(***************************************************************************)
(* C1.  With maxRetries = 3, every failed execution of a task adds one to  *)
(* its retryCount (0 -> 1 -> 2 -> 3 over three consecutive failures); the  *)
(* failure that takes retryCount to 3 emits an alert for the task and sets *)
(* no retry timer; every successful execution sets retryCount to 0.        *)
(***************************************************************************)
C1_Step ==
  \A e \in execs :
    LET t == e.taskId IN
    /\ Fails(e) =>
         /\ tasks'[t].retryCount = tasks[t].retryCount + 1
         /\ (tasks[t].maxRetries = 3 /\ tasks'[t].retryCount = 3) =>
              (AlertEmitted(t) /\ timers' = timers)
    /\ Succeeds(e) => tasks'[t].retryCount = 0

C1_RetryEscalation == [][C1_Step]_vars

\* three failures in a row took retryCount to 3 with an alert, and the
\* success after them has reset it
C1_Witness ==
  LET t == TaskOrder[1]
      r == ResultsOf(allResults, t)
  IN /\ Len(r) = 4
     /\ ~r[1].success /\ ~r[2].success /\ ~r[3].success /\ r[4].success
     /\ Len(alerts) = 1
     /\ tasks[t].retryCount = 0

(***************************************************************************)
(* C2.  Every failed execution does exactly one of two things: when the    *)
(* incremented retryCount is below maxRetries it sets exactly one retry    *)
(* timer, of retryCount x 5 minutes, and emits no alert; otherwise it      *)
(* emits exactly one alert and sets no timer.                              *)
(***************************************************************************)
C2_Step ==
  \A e \in execs :
    Fails(e) =>
      LET t == e.taskId
          rc == tasks'[t].retryCount
      IN IF rc < tasks[t].maxRetries
           THEN /\ timers' = Append(timers, [taskId |-> t, delay |-> rc * 5])
                /\ alerts' = alerts
           ELSE /\ AlertEmitted(t)
                /\ timers' = timers

C2_RetryOrAlert == [][C2_Step]_vars

\* a 5-minute and a 10-minute retry are pending and the alert has been sent
C2_Witness ==
  /\ \E i \in 1..Len(timers) : timers[i].delay = 5
  /\ \E i \in 1..Len(timers) : timers[i].delay = 10
  /\ Len(alerts) = 1

(***************************************************************************)
(* C3.  When validateData reports a hard error for the collected batch the *)
(* execution fails (success = false, retryCount + 1) and nothing is        *)
(* posted; a POST is made only by an execution leaving validation, once,   *)
(* and carries the whole collected batch: the header and one line for      *)
(* every record.                                                           *)
(***************************************************************************)
C3_Step ==
  /\ \A e \in execs :
       (Steps(e) /\ e.pc = "validating") =>
         LET v == validateData(AdapterOf(e.taskId), e.data) IN
         /\ Len(v.errors) > 0 =>
              /\ posts' = posts
              /\ Fails(e)
              /\ tasks'[e.taskId].retryCount = tasks[e.taskId].retryCount + 1
         /\ posts' # posts =>
              /\ Len(posts') = Len(posts) + 1
              /\ SubSeq(posts', 1, Len(posts)) = posts
              /\ Last(posts').exec = e.id
              /\ Len(Last(posts').csv) = Len(e.data) + 1
              /\ \A i \in 1..Len(e.data) :
                   Last(posts').csv[i + 1] = CSVLine(CSVRow(e.data[i]))
              /\ \A i \in 1..Len(posts) : posts[i].exec # e.id
  /\ posts' # posts => \E e \in execs : Steps(e) /\ e.pc = "validating"

C3_AllOrNothing == [][C3_Step]_vars

\* one execution has failed validation and another has posted its batch
C3_Witness ==
  /\ \E i \in 1..Len(allResults) :
       /\ ~allResults[i].success
       /\ Len(allResults[i].errors) > 1
       /\ \A j \in 1..Len(posts) : posts[j].exec # allResults[i].timestamp
  /\ \E j \in 1..Len(posts) : Len(posts[j].csv) = 3

(***************************************************************************)
(* C4.  executeTask appends exactly one result, carrying the task id, for  *)
(* every execution of a known task, whether it succeeds or fails; a call   *)
(* with an unknown id is refused with "Task not found" and changes neither *)
(* the history nor any task nor the timers.                                *)
(***************************************************************************)
Finished == {id \in 1..now : \A e \in execs : e.id # id}

C4_OnePerExecution ==
  \A id \in Finished :
    \E i \in 1..Len(executionHistory) :
      /\ executionHistory[i].timestamp = id
      /\ executionHistory[i].taskId \in TaskIds
      /\ \A j \in 1..Len(executionHistory) :
           executionHistory[j].timestamp = id => j = i

C4_Step ==
  /\ rejected' = "Task not found: " \o UnknownId =>
       UNCHANGED << executionHistory, tasks, timers, alerts, execs, posts >>
  /\ Len(executionHistory') # Len(executionHistory) =>
       /\ Len(executionHistory') = Len(executionHistory) + 1
       /\ \E e \in execs : Steps(e) /\ Last(executionHistory').taskId = e.taskId
                                    /\ Last(executionHistory').timestamp = e.id

C4_HistoryAppend ==
  /\ [](Len(executionHistory) = Cardinality(Finished) /\ C4_OnePerExecution)
  /\ [][C4_Step]_vars

\* a success and a failure are on record and a call with an unknown id has
\* just been refused
C4_Witness ==
  /\ rejected = "Task not found: " \o UnknownId
  /\ \E i \in 1..Len(executionHistory) : executionHistory[i].success
  /\ \E i \in 1..Len(executionHistory) : ~executionHistory[i].success
  /\ Len(alerts) = 0

(***************************************************************************)
(* C5.  The history never holds more than 1000 entries; an append that     *)
(* does not lengthen it by one leaves exactly 500; and the history is      *)
(* always the newest entries of the sequence of all results ever           *)
(* appended, in append order and unmodified.                               *)
(***************************************************************************)
C5_Suffix ==
  /\ Len(executionHistory) <= 1000
  /\ Len(executionHistory) <= Len(allResults)
  /\ executionHistory =
       SubSeq(allResults, Len(allResults) - Len(executionHistory) + 1,
              Len(allResults))

C5_Step ==
  Len(allResults') = Len(allResults) + 1 =>
    \/ executionHistory' = Append(executionHistory, Last(allResults'))
    \/ Len(executionHistory') = 500

C5_BoundedHistory == []C5_Suffix /\ [][C5_Step]_vars

\* the history has been trimmed and has grown again
C5_Witness ==
  /\ Len(allResults) = 1002
  /\ Len(executionHistory) = 501

(***************************************************************************)
(* C6.  As stated: with 1000 entries in the history, the 1001st append     *)
(* drops entries 1-500 and keeps entries 501-1001.                         *)
(***************************************************************************)
C6_Original ==
  Len(allResults) = 1001 => executionHistory = SubSeq(allResults, 501, 1001)

(***************************************************************************)
(* C6, amended.  With 1000 entries in the history, the 1001st append       *)
(* drops entries 1-501 and keeps entries 502-1001: 500 entries, not a      *)
(* 1000-entry cap.                                                         *)
(***************************************************************************)
C6_TrimKeeps500 ==
  Len(allResults) = 1001 =>
    /\ executionHistory = SubSeq(allResults, 502, 1001)
    /\ Len(executionHistory) = 500

\* the 1001st result has just been appended
C6_Witness ==
  /\ Len(allResults) = 1001
  /\ Last(executionHistory).timestamp = 1001

(***************************************************************************)
(* C7.  When the POST to the import API is unreachable, is answered        *)
(* non-2xx, or is answered 2xx with a body that is not JSON, the execution *)
(* fails: its result has success = false and recordCount = 0, retryCount   *)
(* goes up by one, lastRun stays, and the retry policy applies (a timer of *)
(* retryCount x 5 minutes below maxRetries, an alert from there on).       *)
(***************************************************************************)
C7_Step ==
  \A e \in execs :
    \A outcome \in {"unreachable", "non2xx", "badjson"} :
      SubmitSettle(e, outcome) =>
        LET t == e.taskId
            rc == tasks[t].retryCount + 1
        IN /\ Fails(e)
           /\ StepResult(e).recordCount = 0
           /\ Len(StepResult(e).errors) = 1
           /\ tasks'[t].retryCount = rc
           /\ tasks'[t].lastRun = tasks[t].lastRun
           /\ IF rc < tasks[t].maxRetries
                THEN /\ Len(timers') = Len(timers) + 1
                     /\ Last(timers') = [taskId |-> t, delay |-> rc * 5]
                     /\ alerts' = alerts
                ELSE /\ AlertEmitted(t)
                     /\ timers' = timers

C7_SubmitFailure == [][C7_Step]_vars

\* the three kinds of submission failure are on record, after a success
C7_Witness ==
  LET r == allResults IN
  /\ Len(r) = 4
  /\ r[1].success /\ r[1].recordCount = 2
  /\ r[2].errors = << SubmitError("unreachable") >>
  /\ r[3].errors = << SubmitError("non2xx") >>
  /\ r[4].errors = << SubmitError("badjson") >>
  /\ tasks[TaskOrder[1]].retryCount = 3
  /\ tasks[TaskOrder[1]].lastRun = 1

(***************************************************************************)
(* C8.  executeAllTasks walks the task map in its order: from the position *)
(* it is at, it skips the tasks that are disabled and starts the first     *)
(* enabled one, and returns when none is left; it starts a task only when  *)
(* every earlier result of the call is in the history; its results are     *)
(* one per executed task, in map order, and are in the history in that     *)
(* same order.                                                             *)
(***************************************************************************)
InSeq(x, seq) == \E i \in 1..Len(seq) : seq[i] = x

Pos(x, seq) == CHOOSE i \in 1..Len(seq) : seq[i] = x

\* the loop runs from position i in this step
C8_LoopFrom(i) ==
  IF allCall'.state = "waiting"
    THEN LET j == allCall'.idx IN
         /\ j \in i..NumTasks
         /\ tasks[TaskOrder[j]].enabled
         /\ \A k \in i..(j - 1) : ~tasks[TaskOrder[k]].enabled
         /\ \E e \in execs' \ execs :
              /\ e.id = allCall'.waitingOn
              /\ e.taskId = TaskOrder[j]
              /\ e.trigger = "all"
         /\ \A r \in {allCall'.results[n] : n \in 1..Len(allCall'.results)} :
              InSeq(r, allResults)
    ELSE /\ allCall'.state = "idle"
         /\ \A k \in i..NumTasks : ~tasks[TaskOrder[k]].enabled

C8_Step ==
  /\ (allCall.state = "idle" /\ allCall' # allCall) =>
       /\ allCall'.results = << >>
       /\ C8_LoopFrom(1)
  /\ (allCall.state = "settled" /\ allCall' # allCall) =>
       /\ Len(allCall'.results) = Len(allCall.results) + 1
       /\ SubSeq(allCall'.results, 1, Len(allCall.results)) = allCall.results
       /\ Last(allCall'.results).taskId = TaskOrder[allCall.idx]
       /\ Last(allCall'.results).timestamp = allCall.waitingOn
       /\ C8_LoopFrom(allCall.idx + 1)
  /\ \A e \in execs' \ execs :
       (e.trigger = "all" /\ \A f \in execs : f.id # e.id) =>
         allCall'.state = "waiting" /\ allCall'.waitingOn = e.id

C8_Ordered ==
  LET r == allCall.results IN
  /\ \A i \in 1..Len(r) : InSeq(r[i], allResults)
  /\ \A i, j \in 1..Len(r) :
       i < j => /\ TaskIndex(r[i].taskId) < TaskIndex(r[j].taskId)
                /\ Pos(r[i], allResults) < Pos(r[j], allResults)
                /\ r[i].timestamp < r[j].timestamp

C8_Sequential == []C8_Ordered /\ [][C8_Step]_vars

\* the call has returned one result for each of the two tasks, in map
\* order, and another execution's result lies between them in the history
C8_Witness ==
  /\ allCall.state = "idle"
  /\ Len(allCall.results) = 2
  /\ Len(allResults) = 3
  /\ allCall.results[1] = allResults[1]
  /\ allCall.results[2] = allResults[3]

\* the call skipped the first task, which was disabled, and has returned
\* the result of the second alone
C8_WitnessSkip ==
  /\ allCall.state = "idle"
  /\ Len(allCall.results) = 1
  /\ allCall.results[1].taskId = TaskOrder[2]
  /\ ~tasks[TaskOrder[1]].enabled

(***************************************************************************)
(* C9.  As stated: no two executions of the same task are ever in flight   *)
(* at the same time, whichever trigger started them.                       *)
(***************************************************************************)
C9_Original == \A t \in TaskIds : Cardinality(InFlight(t)) <= 1

(***************************************************************************)
(* C9, amended.  The executions started by one executeAllTasks call never  *)
(* overlap each other: at most one of them is in flight at any time, and   *)
(* it is the one the call is awaiting.  (Executions of one task started by *)
(* different triggers do overlap.)                                         *)
(***************************************************************************)
C9_AllCallSerial ==
  LET mine == {e \in execs : e.trigger = "all"} IN
  /\ Cardinality(mine) <= 1
  /\ \A e \in mine : allCall.state = "waiting" /\ allCall.waitingOn = e.id

\* the call's execution of a task and an execution of the same task from
\* another trigger are both waiting for the import API
C9_Witness ==
  \E e, f \in execs :
    /\ e.taskId = f.taskId
    /\ e.trigger = "all" /\ f.trigger # "all"
    /\ e.pc = "submitting" /\ f.pc = "submitting"

(***************************************************************************)
(* C10.  start() while the scheduler is running registers no cadence and   *)
(* changes no task (no nextRun); the start() that takes it from stopped to *)
(* running registers exactly one cadence for every enabled task and none   *)
(* for a disabled one.  So after start(); start() every enabled task has   *)
(* one registration and the state is that after the first start().         *)
(***************************************************************************)
AlreadyRunning == "Task scheduler is already running"

C10_Step ==
  /\ rejected' = AlreadyRunning =>
       /\ isRunning /\ isRunning'
       /\ UNCHANGED << tasks, cronJobs, timers, execs, executionHistory >>
  /\ (~isRunning /\ isRunning') =>
       \A t \in TaskIds :
         /\ cronJobs'[t] = cronJobs[t] + (IF tasks[t].enabled THEN 1 ELSE 0)
         /\ tasks'[t].enabled = tasks[t].enabled
  /\ cronJobs' # cronJobs => (~isRunning /\ isRunning')

C10_StartIdempotent == [][C10_Step]_vars

\* start(); start(): the second call has been refused and every task has
\* its one registration
C10_Witness ==
  /\ rejected = AlreadyRunning
  /\ isRunning
  /\ \A t \in TaskIds : tasks[t].enabled /\ cronJobs[t] = 1

(***************************************************************************)
(* C11.  As stated: once stop() has returned (isRunning is false), no      *)
(* cadence tick starts a new execution; an execution that a cadence tick   *)
(* starts, starts while the scheduler is running.                          *)
(***************************************************************************)
StartedBy(trigger) ==
  {e \in execs' : e.trigger = trigger /\ \A f \in execs : f.id # e.id}

C11_Original == [][StartedBy("cron") # {} => isRunning]_vars

(***************************************************************************)
(* C12.  As stated: every task's retryCount stays within 0..maxRetries.    *)
(***************************************************************************)
C12_Original ==
  \A t \in TaskIds :
    tasks[t].retryCount >= 0 /\ tasks[t].retryCount <= tasks[t].maxRetries

(***************************************************************************)
(* C13.  As stated: a malformed row (a date that is no date, a price that  *)
(* is no positive number, a volume that is neither empty, "-" nor a        *)
(* non-negative number) never makes collectData raise, and the records     *)
(* returned are those returned for the payload without that row, wherever  *)
(* the row sits.                                                           *)
(***************************************************************************)
CEAMalformed(row) ==
  \/ DateGetTime(CEANormalized(row.date)) = NaN
  \/ LET p == ParseFloat(CEACleanPrice(row.price)) IN p = NaN \/ p <= 0
  \/ /\ row.volume \notin {"", "-"}
     /\ LET v == ParseFloat(CEACleanVolume(row.volume)) IN v = NaN \/ v < 0

CCAMalformed(row) ==
  \/ DateGetTime(CCAnormalizeDate(row.date)) = NaN
  \/ LET p == CCAparseNumericValue(row.price) IN p = NaN \/ p <= 0
  \/ /\ row.volume # ""
     /\ LET v == CCAparseNumericValue(row.volume) IN v = NaN \/ v < 0

\* the payloads with row i of source k removed
WithoutRow(payloads, k, i) ==
  [payloads EXCEPT ![k].rows = RemoveAt(payloads[k].rows, i)]

C13_Original ==
  /\ (fx.fn = "CEA.collectData" /\ fx.in.page.loaded) =>
       \A i \in 1..Len(fx.in.page.rows) :
         CEAMalformed(fx.in.page.rows[i]) =>
           /\ ~fx.out.raised
           /\ fx.out.data =
                CEAcollectData([loaded |-> TRUE,
                                rows |-> RemoveAt(fx.in.page.rows, i)],
                               fx.in.target).data
  /\ fx.fn = "CCA.collectData" =>
       \A k \in 1..Len(fx.in.payloads) :
         \A i \in 1..Len(fx.in.payloads[k].rows) :
           CCAMalformed(fx.in.payloads[k].rows[i]) =>
             /\ ~fx.out.raised
             /\ fx.out.data =
                  CCAcollectData(WithoutRow(fx.in.payloads, k, i),
                                 fx.in.target).data

(***************************************************************************)
(* C14.  For CCER, CCA and CDR: when a source fails, collectData does not  *)
(* raise, returns no record of that source and a failure Evidence entry    *)
(* for it, and returns of every other source exactly the records that      *)
(* source contributes.                                                     *)
(***************************************************************************)
MultiSource == {"CCER.collectData", "CCA.collectData", "CDR.collectData"}

SourceUrl(fn, k) ==
  CASE fn = "CCER.collectData" -> CCERSources[k].url
    [] fn = "CCA.collectData" -> CCASources[k].url
    [] fn = "CDR.collectData" ->
         IF k = 1 THEN CDRPricesUrl ELSE CDRTransactionsUrl

SourceName(fn, k) ==
  CASE fn = "CCER.collectData" -> CCERSources[k].name
    [] fn = "CCA.collectData" -> CCASources[k].name
    [] fn = "CDR.collectData" ->
         IF k = 1 THEN "CDR.fyi Prices API" ELSE "CDR.fyi Transactions API"

\* what source k returns for its payload, called by itself
SourceData(fn, k, payload, target) ==
  CASE fn = "CCER.collectData" ->
         CCERcollectFromSource(CCERSources[k], payload, target).data
    [] fn = "CCA.collectData" ->
         CCAcollectFromCSVSource(CCASources[k], payload, target).data
    [] fn = "CDR.collectData" ->
         IF k = 1 THEN CDRfetchPricesAPI(payload, target).data
         ELSE CDRfetchTransactionsAPI(payload, target).data

FromSource(data, fn, k) ==
  SelectSeq(data, LAMBDA r : r.sourceUrl = SourceUrl(fn, k))

C14_SourceIsolation ==
  fx.fn \in MultiSource =>
    \A k \in 1..Len(fx.in.payloads) :
      ~fx.in.payloads[k].ok =>
        /\ ~fx.out.raised
        /\ FromSource(fx.out.data, fx.fn, k) = << >>
        /\ \E n \in 1..Len(fx.out.evidence) :
             fx.out.evidence[n] = Evidence(SourceName(fx.fn, k), FALSE)
        /\ \A j \in 1..Len(fx.in.payloads) :
             j # k =>
               FromSource(fx.out.data, fx.fn, j) =
                 SourceData(fx.fn, j, fx.in.payloads[j], fx.in.target)

\* the first CCER source failed and the second contributed two records
C14_Witness ==
  /\ fx.fn = "CCER.collectData"
  /\ ~fx.in.payloads[1].ok
  /\ fx.in.payloads[2].ok
  /\ Len(fx.out.data) = 2
  /\ fx.out.evidence[1] = Evidence(CCERSources[1].name, FALSE)

(***************************************************************************)
(* C15.  As stated: every record collectData returns has a date within the *)
(* adapter's window of the target date: 3 days for CEA, CCER and CCA, 5    *)
(* for CDR.                                                                *)
(***************************************************************************)
WindowDays(fn) == IF fn = "CDR.collectData" THEN CDRWindowDays ELSE CEAWindowDays

C15_Original ==
  fx.fn # "" =>
    \A n \in 1..Len(fx.out.data) :
      /\ DateGetTime(fx.out.data[n].date) # NaN
      /\ WithinDays(fx.out.data[n].date, fx.in.target, WindowDays(fx.fn))

(***************************************************************************)
(* C16.  As stated: every record collectData returns has a price above 0,  *)
(* a volume that is null or not negative, and the market code and the      *)
(* currency of its adapter.                                                *)
(***************************************************************************)
AdapterOfCall(fn) ==
  CASE fn = "CEA.collectData" -> CEA
    [] fn = "CCER.collectData" -> CCER
    [] fn = "CCA.collectData" -> CCA
    [] fn = "CDR.collectData" -> CDR

C16_Original ==
  fx.fn # "" =>
    \A n \in 1..Len(fx.out.data) :
      LET r == fx.out.data[n] IN
      /\ r.price # NaN /\ r.price > 0
      /\ r.volume = NoVolume \/ r.volume >= 0
      /\ r.marketCode = AdapterOfCall(fx.fn).marketCode
      /\ r.currency = AdapterOfCall(fx.fn).currency

(***************************************************************************)
(* C17.  As stated: for a batch that contains a record with market code EU *)
(* and currency USD, validateData of an adapter returns isValid = false    *)
(* and a hard error "Invalid currency" for that record.                    *)
(***************************************************************************)
HasMismatch(records) ==
  \E i \in 1..Len(records) :
    records[i].marketCode = "EU" /\ records[i].currency = "USD"

HasError(errors, text) == \E k \in 1..Len(errors) : errors[k] = text

C17_Original ==
  (fx.fn = "validateData" /\ HasMismatch(fx.in.records)) =>
    /\ ~fx.out.isValid
    /\ HasError(fx.out.errors, "Invalid currency: USD")

(***************************************************************************)
(* C18.  As stated: for the CCA batch dated 2024-01-10, 2024-01-11 and     *)
(* 2024-01-12 with the prices 30.00, 31.50 and 65.00, validateData of the  *)
(* CCA adapter returns isValid = true, a price-change warning that names   *)
(* 2024-01-12, recordCount 3, and a qualityScore strictly lower than for   *)
(* the same batch with 32.00 as third price.                               *)
(***************************************************************************)
JumpBatch ==
  << Rec("CCA", "USD", "2024-01-10", 3000, 100),
     Rec("CCA", "USD", "2024-01-11", 3150, NoVolume),
     Rec("CCA", "USD", "2024-01-12", 6500, 100) >>

SmoothBatch == [JumpBatch EXCEPT ![3].price = 3200]

C18_Original ==
  (fx.fn = "CCA.validateData" /\ fx.in.records = JumpBatch) =>
    /\ fx.out.isValid
    /\ HasError(fx.out.warnings,
         "Large price change 106.3% between 2024-01-11 and 2024-01-12")
    /\ fx.out.recordCount = 3
    /\ fx.out.qualityScore < CCAvalidateData(SmoothBatch).qualityScore

(***************************************************************************)
(* C19.  As stated: calculateScore returns a value from 0 to 100 for every *)
(* batch, the empty one included, and appending a record with a missing    *)
(* required field or a price that is not positive to any batch never       *)
(* increases the score.                                                    *)
(***************************************************************************)
BadRecords ==
  {r \in QualityRecords : r.marketCode = "" \/ r.price <= 0}

Count(seq, x) == Cardinality({k \in 1..Len(seq) : seq[k] = x})

PricesOf(records) == {records[i].price : i \in 1..Len(records)}

C20_RangeWarningIff ==
  fx.fn = "checkQuality" =>
    LET records == fx.in.records
        range == fx.in.options.expectedPriceRange
    IN \A p \in PricesOf(records) :
         Count(fx.out.warnings, RangeWarning(p, range))
           = IF p < range.min \/ p > range.max
               THEN Cardinality({i \in 1..Len(records) : records[i].price = p})
               ELSE 0

\* one call with a price at range.min, one at range.max and one outside
C20_Witness ==
  /\ fx.fn = "checkQuality"
  /\ LET records == fx.in.records
         range == fx.in.options.expectedPriceRange
     IN /\ range.min < range.max
        /\ \E i, j, k \in 1..Len(records) :
             /\ records[i].price = range.min
             /\ records[j].price = range.max
             /\ records[k].price > range.max
             /\ Count(fx.out.warnings, RangeWarning(records[k].price, range)) = 1
             /\ Count(fx.out.warnings, RangeWarning(range.min, range)) = 0

(***************************************************************************)
(* C21.  As stated: checkDuplicates returns as many notices as there are   *)
(* rows less the number of distinct (market_code, instrument_code, date)   *)
(* triples of the batch.                                                   *)
(***************************************************************************)
Triple(row) == << row.market_code, row.instrument_code, row.date >>

TriplesOf(rows) == {Triple(rows[i]) : i \in 1..Len(rows)}

C21_Original ==
  fx.fn = "checkDuplicates" =>
    Len(fx.out) = Len(fx.in.rows) - Cardinality(TriplesOf(fx.in.rows))

(***************************************************************************)
(* C22.  As stated: assessBatchQuality recommends pausing the automatic    *)
(* import whenever the errors of the per-row validation number more than a *)
(* tenth of the rows, and it returns at most 100 issues.                   *)
(***************************************************************************)
RECURSIVE ErrorsOfRows(_, _, _)
\* the number of errors validatePriceData reports for the rows from i on
ErrorsOfRows(rows, i, today) ==
  IF i > Len(rows) THEN 0
  ELSE Len(validatePriceData(rows[i], rows, today).errors)
       + ErrorsOfRows(rows, i + 1, today)

C22_Original ==
  fx.fn = "assessBatchQuality" =>
    /\ Len(fx.out.issues) <= IssueCap
    /\ 10 * ErrorsOfRows(fx.in.rows, 1, fx.in.today) > Len(fx.in.rows) =>
         HasError(fx.out.recommendations, "HIGH_ERROR_RATE")

(***************************************************************************)
(* C23.  As stated: date normalisation maps every input in an accepted     *)
(* format to the zero-padded YYYY-MM-DD string of the same day, and        *)
(* returns null when the month is outside 1..12, the day outside 1..31 or  *)
(* the year below 2000.                                                    *)
(***************************************************************************)
YearOf(input) ==
  IF Len(input.year) = 4 THEN DigitsValue(input.year)
  ELSE IF DigitsValue(input.year) < 50 THEN 2000 + DigitsValue(input.year)
  ELSE 1900 + DigitsValue(input.year)

ExpectedDate(input) ==
  IF /\ DigitsValue(input.month) \in 1..12
     /\ DigitsValue(input.day) \in 1..31
     /\ YearOf(input) >= 2000
    THEN ToString(YearOf(input)) \o "-" \o Pad2(DigitsValue(input.month))
         \o "-" \o Pad2(DigitsValue(input.day))
    ELSE ""

C23_Original ==
  fx.fn \in {"normalizeDate", "parseDateString"} => fx.out = ExpectedDate(fx.in)

(***************************************************************************)
(* C24.  As stated: fetchWithRetry makes at most retries + 1 attempts, the *)
(* delays between them are 1, 2, 4, ... seconds, a response that is not    *)
(* 2xx is retried and never handed back as the result, the call raises the *)
(* last error at the cap, and an attempt can succeed whatever happened to  *)
(* the attempts before it, a timeout included.                             *)
(***************************************************************************)
C24_Original ==
  fx.fn = "fetchJson" =>
    /\ fx.out.calls <= fx.in.retries + 1
    /\ \A k \in 1..Len(fx.out.delays) : fx.out.delays[k] = Backoff(k - 1)
    /\ fx.out.pc = "returned" => fx.out.outcome = "200"
    /\ fx.out.pc = "throw" => fx.out.calls = fx.in.retries + 1
    /\ (fx.out.pc = "fetch" /\ fx.out.lastError = "AbortError")
         => ENABLED AttemptResponds

(***************************************************************************)
(* C25.  getHealthStatus returns healthy when every probe answers healthy, *)
(* degraded when not all but at least half of them do, and unhealthy       *)
(* otherwise; a probe that throws counts as unhealthy for its task and the *)
(* call still returns; no step of the call changes a task, the history or  *)
(* anything else of the scheduler.                                         *)
(***************************************************************************)
HealthyProbes ==
  Cardinality({k \in 1..Len(fx.out.probes) : fx.out.probes[k] = "healthy"})

C25_Returned ==
  (fx.fn = "getHealthStatus" /\ fx.out.pc = "returned") =>
    /\ Len(fx.out.probes) = NumTasks
    /\ \A k \in 1..NumTasks :
         /\ fx.out.taskHealth[k].taskId = TaskOrder[k]
         /\ fx.out.probes[k] = "throws" => fx.out.taskHealth[k].status = "unhealthy"
         /\ fx.out.probes[k] # "throws" =>
              fx.out.taskHealth[k].status = fx.out.probes[k]
    /\ fx.out.scheduler = "healthy" <=> HealthyProbes = NumTasks
    /\ fx.out.scheduler = "degraded" <=>
         (HealthyProbes < NumTasks /\ 2 * HealthyProbes >= NumTasks)
    /\ fx.out.scheduler = "unhealthy" <=> 2 * HealthyProbes < NumTasks

C26_Original ==
  [][\A e \in StartedBy("cron") \cup StartedBy("retry") :
       tasks[e.taskId].enabled]_vars

(***************************************************************************)
(* C27.  As stated: after any sequence of start() and stop() calls every   *)
(* task has at most one cadence registration, and one tick of its cadence  *)
(* starts at most one execution of it.                                     *)
(***************************************************************************)
C27_Original ==
  /\ [](\A t \in TaskIds : cronJobs[t] <= 1)
  /\ [][Cardinality(StartedBy("cron")) <= 1]_vars

(***************************************************************************)
(* C28.  As stated: for each task at most one retry timer is pending at    *)
(* any time, and a run of consecutive failures of a task produces at most  *)
(* one alert.                                                              *)
(***************************************************************************)
PendingTimers(t) == {i \in 1..Len(timers) : timers[i].taskId = t}

\* the number of runs of consecutive failures among the results
FailureRuns(results) ==
  Cardinality({i \in 1..Len(results) :
    ~results[i].success /\ (i = 1 \/ results[i - 1].success)})

AlertsFor(t) == Cardinality({i \in 1..Len(alerts) : alerts[i].taskId = t})

C28_Original ==
  \A t \in TaskIds :
    /\ Cardinality(PendingTimers(t)) <= 1
    /\ execs = {} => AlertsFor(t) <= FailureRuns(ResultsOf(allResults, t))

(***************************************************************************)
(* C29.  When collectData resolves with no record, executeTask posts       *)
(* nothing and the execution succeeds: success = true, recordCount = 0, no *)
(* errors, the task's retryCount 0 and lastRun set to the time of the      *)
(* step, no retry timer set and no alert emitted.                          *)
(***************************************************************************)
C29_Step ==
  \A e \in execs :
    (Steps(e) /\ e.pc = "validating" /\ e.data = << >>) =>
      /\ Succeeds(e)
      /\ StepResult(e).recordCount = 0
      /\ StepResult(e).errors = << >>
      /\ Last(executionHistory') = StepResult(e)
      /\ tasks'[e.taskId].retryCount = 0
      /\ tasks'[e.taskId].lastRun = now
      /\ posts' = posts
      /\ timers' = timers
      /\ alerts' = alerts

Quoted(fields) ==
  \A k \in 1..Len(fields) :
    /\ Len(fields[k]) >= 2
    /\ CharAt(fields[k], 1) = "\""
    /\ CharAt(fields[k], Len(fields[k])) = "\""

C30_Original ==
  \A j \in 1..Len(posts) :
    LET csv == posts[j].csv IN
    /\ PapaFields(csv[1]) = CSVHeaders
    /\ \A i \in 1..Len(csv) :
         /\ Len(SplitOn(csv[i], ",")) = Len(CSVHeaders)
         /\ Quoted(SplitOn(csv[i], ","))
    /\ \A i \in 2..Len(csv) : CSVRowSchema(PapaRow(csv[1], csv[i]))

====
